---- MODULE Spec2Model ----
(***************************************************************************)
(* Model of the columnar filter executor of                                *)
(* src/trace_processor/db/query_executor.cc: QueryExecutor::FilterColumn,  *)
(* BoundedColumnFilter, IndexedColumnFilter, IndexFilterHelper and         *)
(* FilterLegacy.                                                           *)
(*                                                                         *)
(* Row and storage indices are 0-based as in the C++ code; a vector, a bit *)
(* vector or a row map is a TLA+ sequence, so element i of the code is     *)
(* element i + 1 of the sequence.  A RowMap is the strictly increasing     *)
(* sequence of its rows (RowMap::Get(i) is rm[i + 1]).                     *)
(***************************************************************************)
EXTENDS Integers, Sequences, FiniteSets, TLC

\* Number of rows of the column FilterColumn is called on.
NumRows == 6

\* Number of rows of the column the two algorithms are called on directly.
AlgoRows == 5

\* Number of rows of the table FilterLegacy filters.
LegacyRows == 2

\* Largest distance between neighbouring rows of the long row maps.
MaxStride == 3

\* Number of rows of the columns whose filters are followed step by step,
\* and the depth of their deepest overlay stack.
StepRows == 3

MaxOverlays == 2

\* The capacity of the overlay stack of a SimpleColumn.
kMaxOverlayCount == 8

\* The threshold of FilterColumn: a row map of this many rows or more is
\* always filtered by the bounded algorithm.
kIndexedMaxSize == 1024

\* Values of a storage element, and the value of a constraint.
Values == {0, 1}

ConstraintValues == {1}

\* The filter operators of a constraint (FilterOp).
FilterOps == {"kEq", "kNe", "kLt", "kLe", "kGt", "kGe", "kIsNull", "kIsNotNull"}

----------------------------------------------------------------------------
(* BitVector and RowMap                                                    *)

\* BitVector::CountSetBits(): number of set bits.
CountSetBits(bv) == Cardinality({i \in 1 .. Len(bv) : bv[i]})

\* BitVector::CountSetBits(end): number of set bits at the positions below end.
CountSetBitsUntil(bv, end) == Cardinality({i \in 1 .. end : bv[i]})

\* RowMap(BitVector): the row map of the set bits of bv.
RowMapOfBitVector(bv) ==
  SelectSeq([i \in 1 .. Len(bv) |-> i - 1], LAMBDA r : bv[r + 1])

\* RowMap(start, end): the row map of the range [start, end).
RowMapOfRange(start, end) == [i \in 1 .. (end - start) |-> start + i - 1]

RowSet(rm) == {rm[i] : i \in 1 .. Len(rm)}

\* RowMap::Intersect: the rows of rm that are also rows of other, in order.
RowMapIntersect(rm, other) ==
  SelectSeq(rm, LAMBDA r : \E i \in 1 .. Len(other) : other[i] = r)

\* Mutant: the vector is sorted in descending order.
Sort_Descending(seq) == SortSeq(seq, LAMBDA x, y : x > y)

\* std::sort of a vector of indices.
Sort(seq) == SortSeq(seq, LAMBDA x, y : x < y)

----------------------------------------------------------------------------
(* Storage: the typed payload of a column, a vector of non-null values.    *)

\* Whether a storage element satisfies (op, value).  A storage element is
\* never null: kIsNull matches none and kIsNotNull matches every element.
Compare(op, elem, value) ==
  CASE op = "kEq" -> elem = value
    [] op = "kNe" -> elem # value
    [] op = "kLt" -> elem < value
    [] op = "kLe" -> elem <= value
    [] op = "kGt" -> elem > value
    [] op = "kGe" -> elem >= value
    [] op = "kIsNull" -> FALSE
    [] op = "kIsNotNull" -> TRUE

\* Storage::LinearSearch(op, value, range): a bit vector as long as the
\* storage, set at the positions of range whose element satisfies (op, value).
StorageLinearSearch(storage, op, value, range) ==
  [i \in 1 .. Len(storage) |->
     /\ range.start <= i - 1
     /\ i - 1 < range.end
     /\ Compare(op, storage[i], value)]

\* Storage::IndexSearch(op, value, indices, count): bit i is set iff
\* storage[indices[i]] satisfies (op, value).
StorageIndexSearch(storage, op, value, indices) ==
  [i \in 1 .. Len(indices) |-> Compare(op, storage[indices[i] + 1], value)]

----------------------------------------------------------------------------
(* Overlays.  The one overlay the executor is given is the NullOverlay: a  *)
(* bit vector non_null over the outer rows, set where the row has a value; *)
(* the inner index of a non-null row is the number of set bits below it.   *)

\* overlays::FilterOpToOverlayOp.
FilterOpToOverlayOp(op) ==
  CASE op = "kIsNull" -> "kIsNull"
    [] op = "kIsNotNull" -> "kIsNotNull"
    [] OTHER -> "kOther"

\* NullOverlay::MapToStorageRange.
MapToStorageRange(overlay, t_range) ==
  [start |-> CountSetBitsUntil(overlay.non_null, t_range.start),
   end |-> CountSetBitsUntil(overlay.non_null, t_range.end)]

\* NullOverlay::MapToTableBitVector: a bit vector over the outer rows; a
\* non-null row takes the bit of its storage element, a null row is set only
\* for kIsNull.
MapToTableBitVector(overlay, s_bv, op) ==
  [i \in 1 .. Len(overlay.non_null) |->
     IF overlay.non_null[i]
       THEN s_bv[CountSetBitsUntil(overlay.non_null, i - 1) + 1]
       ELSE op = "kIsNull"]

\* NullOverlay::IsStorageLookupRequired: bit i is set iff index i must still
\* reach storage; kIsNull and kIsNotNull are decided by the overlay alone.
IsStorageLookupRequired(overlay, op, t_iv) ==
  [i \in 1 .. Len(t_iv) |-> op = "kOther" /\ overlay.non_null[t_iv[i] + 1]]

\* NullOverlay::MapToStorageIndexVector.
MapToStorageIndexVector(overlay, t_iv) ==
  [i \in 1 .. Len(t_iv) |-> CountSetBitsUntil(overlay.non_null, t_iv[i])]

\* NullOverlay::IndexSearch: which of the indices that need no storage lookup
\* satisfy the op at the overlay; a null row satisfies no comparison.
OverlayIndexSearch(overlay, op, t_iv) ==
  [i \in 1 .. Len(t_iv) |->
     CASE op = "kIsNull" -> ~overlay.non_null[t_iv[i] + 1]
       [] op = "kIsNotNull" -> overlay.non_null[t_iv[i] + 1]
       [] OTHER -> FALSE]

----------------------------------------------------------------------------
(* IndexFilterHelper: the paired lists current and global.                 *)

\* An entry of the log of the calls a filter makes: the function and the
\* position in the overlay stack of the overlay it is called on (-1 for the
\* storage and for the row map).
Call(fn, ov) == [fn |-> fn, ov |-> ov]

\* IndexFilterHelper(indices): current and global both start as indices.
IndexFilterHelper(indices) == [current |-> indices, global |-> indices]

EmptyHelper == [current |-> <<>>, global |-> <<>>]

\* The loop of Partition: the elements of seq at the positions of bv whose
\* bit equals want, in order (it.index() runs over the positions of bv).
PartitionSide(seq, bv, want) ==
  LET positions == SelectSeq([i \in 1 .. Len(bv) |-> i],
                             LAMBDA i : bv[i] = want)
  IN [k \in 1 .. Len(positions) |-> seq[positions[k]]]

\* Mutant: the pairs of the set partition are pushed in reverse order.
Partition_Unstable(indices, bv) ==
  IF CountSetBits(bv) = 0 THEN <<EmptyHelper, indices>>
  ELSE LET set_current == PartitionSide(indices.current, bv, TRUE)
           set_global == PartitionSide(indices.global, bv, TRUE)
           n == Len(set_current)
       IN <<[current |-> [i \in 1 .. n |-> set_current[n + 1 - i]],
             global |-> [i \in 1 .. n |-> set_global[n + 1 - i]]],
            [current |-> PartitionSide(indices.current, bv, FALSE),
             global |-> PartitionSide(indices.global, bv, FALSE)]>>

\* IndexFilterHelper::Partition: <<set_partition, non_set_partition>>.
Partition(indices, bv) ==
  IF CountSetBits(bv) = 0 THEN <<EmptyHelper, indices>>
  ELSE <<[current |-> PartitionSide(indices.current, bv, TRUE),
          global |-> PartitionSide(indices.global, bv, TRUE)],
         [current |-> PartitionSide(indices.current, bv, FALSE),
          global |-> PartitionSide(indices.global, bv, FALSE)]>>

\* std::remove_if with the filter lambda of KeepAtSet: element i of seq is
\* kept iff filter_nulls.IsSet(i); i runs over the positions of seq.
RemoveIfNotSet(seq, filter_nulls) ==
  LET positions == SelectSeq([i \in 1 .. Len(seq) |-> i],
                             LAMBDA i : filter_nulls[i])
  IN [k \in 1 .. Len(positions) |-> seq[positions[k]]]

\* Mutant: the pairs are filtered in current only; global keeps them all.
KeepAtSet_GlobalUnfiltered(helper, filter_nulls) ==
  [helper |-> [current |-> RemoveIfNotSet(helper.current, filter_nulls),
               global |-> helper.global],
   count_removed |-> Len(helper.current) - CountSetBits(filter_nulls),
   fault |-> "none"]

\* Mutant: the count returned is that of the pairs kept.
KeepAtSet_CountsKept(helper, filter_nulls) ==
  [helper |-> [current |-> RemoveIfNotSet(helper.current, filter_nulls),
               global |-> RemoveIfNotSet(helper.global, filter_nulls)],
   count_removed |-> CountSetBits(filter_nulls),
   fault |-> "none"]

\* IndexFilterHelper::KeepAtSet.  fault is "check" when the PERFETTO_CHECK
\* fails and "oob" when IsSet is read past the end of filter_nulls (a bit
\* vector with no set bit and a length below the helper's passes the check).
KeepAtSet(helper, filter_nulls) ==
  IF ~(Len(filter_nulls) = Len(helper.current) \/ CountSetBits(filter_nulls) = 0)
    THEN [helper |-> helper, count_removed |-> 0, fault |-> "check"]
  ELSE IF Len(filter_nulls) < Len(helper.current)
    THEN [helper |-> helper,
          count_removed |-> Len(helper.current) - CountSetBits(filter_nulls),
          fault |-> "oob"]
  ELSE [helper |-> [current |-> RemoveIfNotSet(helper.current, filter_nulls),
                    global |-> RemoveIfNotSet(helper.global, filter_nulls)],
        count_removed |-> Len(helper.current) - CountSetBits(filter_nulls),
        fault |-> "none"]

----------------------------------------------------------------------------
(* The two filter algorithms.  A SimpleColumn is                           *)
(* [storage |-> vector of values, overlays |-> stack of overlays], with    *)
(* overlays[1] the outermost; a Constraint is [op |-> ..., value |-> ...]. *)

\* The first loop of BoundedColumnFilter from overlay k on: the range mapped
\* through overlays k, k + 1, ..., and the calls made.
RECURSIVE ForwardRanges(_, _, _)
ForwardRanges(overlays, k, table_range) ==
  IF k > Len(overlays) THEN [range |-> table_range, log |-> <<>>]
  ELSE LET storage_range == MapToStorageRange(overlays[k], table_range)
           rest == ForwardRanges(overlays, k + 1, storage_range)
       IN [range |-> rest.range,
           log |-> <<Call("MapToStorageRange", k - 1)>> \o rest.log]

\* The second loop of BoundedColumnFilter: i counts up, the overlay visited
\* is rev_i = overlays.size() - 1 - i.
RECURSIVE ReverseBitVectors(_, _, _, _)
ReverseBitVectors(overlays, i, filtered_storage, op) ==
  IF i >= Len(overlays) THEN [bv |-> filtered_storage, log |-> <<>>]
  ELSE LET rev_i == Len(overlays) - 1 - i
           mapped_to_table ==
             MapToTableBitVector(overlays[rev_i + 1], filtered_storage,
                                 FilterOpToOverlayOp(op))
           rest == ReverseBitVectors(overlays, i + 1, mapped_to_table, op)
       IN [bv |-> rest.bv,
           log |-> <<Call("MapToTableBitVector", rev_i)>> \o rest.log]

\* QueryExecutor::BoundedColumnFilter, for a non-empty rm.
BoundedColumnFilter(c, col, rm) ==
  LET table_range == [start |-> rm[1], end |-> rm[Len(rm)] + 1]
      fwd == ForwardRanges(col.overlays, 1, table_range)
      filtered_storage == StorageLinearSearch(col.storage, c.op, c.value, fwd.range)
      rev == ReverseBitVectors(col.overlays, 0, filtered_storage, c.op)
  IN [rm |-> RowMapOfBitVector(rev.bv),
      log |-> <<Call("Get", -1), Call("Get", -1)>> \o fwd.log
                \o <<Call("LinearSearch", -1)>> \o rev.log]

\* Mutant: the fast path also appends the helper's global indices to valid.
IndexedFastPath_AppendsValid(overlay, k, st) ==
  [st EXCEPT
     !.to_filter.current = MapToStorageIndexVector(overlay, st.to_filter.current),
     !.valid = st.valid \o st.to_filter.global,
     !.log = st.log \o <<Call("IsStorageLookupRequired", k - 1),
                         Call("MapToStorageIndexVector", k - 1)>>]

\* The fast path of an iteration of the overlay loop: every index needs a
\* storage lookup, and only current is rewritten.
IndexedFastPath(overlay, k, st) ==
  [st EXCEPT
     !.to_filter.current = MapToStorageIndexVector(overlay, st.to_filter.current),
     !.log = st.log \o <<Call("IsStorageLookupRequired", k - 1),
                         Call("MapToStorageIndexVector", k - 1)>>]

\* Mutant: the rows the overlay decides are appended to valid from current
\* after the rewrite to storage indices.
IndexedSlowPath_ValidFromCurrent(overlay, k, op, st, partition) ==
  LET parts == Partition(st.to_filter, partition)
      valid_bv == OverlayIndexSearch(overlay, op, parts[2].current)
      kept == KeepAtSet(parts[2], valid_bv)
  IN [to_filter |->
        [current |-> MapToStorageIndexVector(overlay, parts[1].current),
         global |-> parts[1].global],
      valid |-> st.valid
                  \o MapToStorageIndexVector(overlay, kept.helper.current),
      count_removed |-> st.count_removed + kept.count_removed,
      fault |-> "none",
      log |-> st.log \o <<Call("IsStorageLookupRequired", k - 1),
                          Call("IndexSearch", k - 1),
                          Call("MapToStorageIndexVector", k - 1)>>]

\* Mutant: count_removed takes the count of this iteration instead of
\* growing by it.
IndexedSlowPath_CountOverwritten(overlay, k, op, st, partition) ==
  LET parts == Partition(st.to_filter, partition)
      valid_bv == OverlayIndexSearch(overlay, op, parts[2].current)
      kept == KeepAtSet(parts[2], valid_bv)
  IN [to_filter |->
        [current |-> MapToStorageIndexVector(overlay, parts[1].current),
         global |-> parts[1].global],
      valid |-> st.valid \o kept.helper.global,
      count_removed |-> kept.count_removed,
      fault |-> "none",
      log |-> st.log \o <<Call("IsStorageLookupRequired", k - 1),
                          Call("IndexSearch", k - 1),
                          Call("MapToStorageIndexVector", k - 1)>>]

\* The slow path of an iteration of the overlay loop: Partition, IndexSearch
\* at the overlay on the indices that need no storage lookup, KeepAtSet,
\* append of the kept global indices to valid, rewrite of current.
IndexedSlowPath(overlay, k, op, st, partition) ==
  LET asked == <<Call("IsStorageLookupRequired", k - 1)>>
      mapped == <<Call("MapToStorageIndexVector", k - 1)>>
      parts == Partition(st.to_filter, partition)
      storage_lookup == parts[1]
      no_storage_lookup == parts[2]
      valid_bv == OverlayIndexSearch(overlay, op, no_storage_lookup.current)
      kept == KeepAtSet(no_storage_lookup, valid_bv)
  IN IF kept.fault # "none"
       THEN [st EXCEPT
               !.fault = kept.fault,
               !.log = st.log \o asked \o <<Call("IndexSearch", k - 1)>>]
       ELSE [to_filter |->
               [current |-> MapToStorageIndexVector(overlay,
                                                    storage_lookup.current),
                global |-> storage_lookup.global],
             valid |-> st.valid \o kept.helper.global,
             count_removed |-> st.count_removed + kept.count_removed,
             fault |-> "none",
             log |-> st.log \o asked \o <<Call("IndexSearch", k - 1)>>
                       \o mapped]

\* Mutant: every iteration takes the fast path, whatever the overlay's bits.
IndexedOverlayStep_AlwaysFast(overlay, k, op, st) ==
  IndexedFastPath(overlay, k, st)

\* One iteration of the overlay loop of IndexedColumnFilter on the loop
\* state st = [to_filter, valid, count_removed, fault, log].
IndexedOverlayStep(overlay, k, op, st) ==
  LET partition == IsStorageLookupRequired(overlay, op, st.to_filter.current)
  IN IF CountSetBits(partition) = Len(partition)
       THEN IndexedFastPath(overlay, k, st)
     ELSE IndexedSlowPath(overlay, k, op, st, partition)

\* The overlay loop of IndexedColumnFilter from overlay k on.
RECURSIVE IndexedOverlayLoop(_, _, _, _)
IndexedOverlayLoop(overlays, k, op, st) ==
  IF k > Len(overlays) \/ st.fault # "none" THEN st
  ELSE IndexedOverlayLoop(overlays, k + 1, op,
                          IndexedOverlayStep(overlays[k], k, op, st))

\* The state of IndexedColumnFilter before its overlay loop: the helper
\* holds the rows of rm, valid is empty and nothing is removed.
IndexedStart(rm) ==
  [to_filter |-> IndexFilterHelper(rm), valid |-> <<>>, count_removed |-> 0,
   fault |-> "none", log |-> <<Call("IterateRows", -1)>>]

\* The storage step of IndexedColumnFilter on the loop state st: IndexSearch
\* on the storage, KeepAtSet of the matches and their append to valid.
IndexedStorageStep(c, col, st) ==
  LET matched_in_storage ==
        StorageIndexSearch(col.storage, c.op, c.value, st.to_filter.current)
      kept == KeepAtSet(st.to_filter, matched_in_storage)
      log == st.log \o <<Call("IndexSearch", -1)>>
  IN IF kept.fault # "none"
       THEN [st EXCEPT !.fault = kept.fault, !.log = log]
     ELSE [to_filter |-> kept.helper,
           valid |-> st.valid \o kept.helper.global,
           count_removed |-> st.count_removed + kept.count_removed,
           fault |-> "none",
           log |-> log]

\* QueryExecutor::IndexedColumnFilter.  fault is "check" when a
\* PERFETTO_CHECK fails (the one of KeepAtSet, or the final
\* rm->size() == valid.size() + count_removed).
IndexedColumnFilter(c, col, rm) ==
  LET st == IndexedOverlayLoop(col.overlays, 1, FilterOpToOverlayOp(c.op),
                               IndexedStart(rm))
      done == IndexedStorageStep(c, col, st)
  IN IF st.fault # "none"
       THEN [rm |-> rm, valid |-> st.valid, count_removed |-> st.count_removed,
             fault |-> st.fault, log |-> st.log]
     ELSE IF done.fault # "none"
       THEN [rm |-> rm, valid |-> st.valid, count_removed |-> st.count_removed,
             fault |-> done.fault, log |-> done.log]
     ELSE [rm |-> Sort(done.valid), valid |-> done.valid,
           count_removed |-> done.count_removed,
           fault |-> IF Len(rm) = Len(done.valid) + done.count_removed
                       THEN "none" ELSE "check",
           log |-> done.log]

----------------------------------------------------------------------------
(* QueryExecutor::FilterColumn                                             *)

\* Mutant: the density is compared with 1 instead of 0.5.
DensityBelowHalf_BelowOne(size, range_size) ==
  IF range_size = 0 THEN FALSE ELSE size < range_size

\* Mutant: a quotient by zero counts as below 0.5.
DensityBelowHalf_ZeroIsSparse(size, range_size) ==
  IF range_size = 0 THEN TRUE ELSE 2 * size < range_size

\* static_cast<double>(size) / range_size < 0.5 for size > 0: the quotient
\* of a positive number by zero is +infinity, which is not below 0.5.
DensityBelowHalf(size, range_size) ==
  IF range_size = 0 THEN FALSE ELSE 2 * size < range_size

\* Mutant: the indexed algorithm is chosen on the density alone.
UseIndexed_NoSizeLimit(size, rm_first, rm_last) ==
  DensityBelowHalf(size, rm_last - rm_first)

\* The condition of FilterColumn under which the indexed algorithm runs.
UseIndexed(size, rm_first, rm_last) ==
  /\ size < kIndexedMaxSize
  /\ DensityBelowHalf(size, rm_last - rm_first)

\* What FilterColumn leaves when it returns early on an empty row map.
FilterColumnEmpty(rm) ==
  [rm |-> rm, algorithm |-> "none", fault |-> "none", log |-> <<>>,
   valid_size |-> 0, count_removed |-> 0]

\* The indexed branch of FilterColumn: *rm = IndexedColumnFilter(c, col, rm).
FilterColumnIndexed(c, col, rm) ==
  LET res == IndexedColumnFilter(c, col, rm)
  IN [rm |-> res.rm, algorithm |-> "indexed", fault |-> res.fault,
      log |-> <<Call("Get", -1), Call("Get", -1)>> \o res.log,
      valid_size |-> Len(res.valid), count_removed |-> res.count_removed]

\* Mutant: the bounded result replaces the row map instead of being
\* intersected into it.
FilterColumnBounded_NoIntersect(c, col, rm) ==
  LET res == BoundedColumnFilter(c, col, rm)
  IN [rm |-> res.rm, algorithm |-> "bounded", fault |-> "none",
      log |-> <<Call("Get", -1), Call("Get", -1)>> \o res.log,
      valid_size |-> 0, count_removed |-> 0]

\* The bounded branch of FilterColumn:
\* rm->Intersect(BoundedColumnFilter(c, col, rm)).
FilterColumnBounded(c, col, rm) ==
  LET res == BoundedColumnFilter(c, col, rm)
  IN [rm |-> RowMapIntersect(rm, res.rm), algorithm |-> "bounded",
      fault |-> "none",
      log |-> <<Call("Get", -1), Call("Get", -1)>> \o res.log
                \o <<Call("Intersect", -1)>>,
      valid_size |-> 0, count_removed |-> 0]

\* Mutant: no early return; an empty row map is searched as the range [0, 0).
FilterColumn_NoEarlyReturn(c, col, rm) ==
  IF Len(rm) = 0
    THEN [rm |-> rm, algorithm |-> "bounded", fault |-> "none",
          log |-> <<Call("LinearSearch", -1), Call("Intersect", -1)>>,
          valid_size |-> 0, count_removed |-> 0]
  ELSE IF UseIndexed(Len(rm), rm[1], rm[Len(rm)])
    THEN FilterColumnIndexed(c, col, rm)
  ELSE FilterColumnBounded(c, col, rm)

\* QueryExecutor::FilterColumn: the row map left in *rm, the algorithm that
\* ran ("none" for the early return), the calls made and the fault, if any.
FilterColumn(c, col, rm) ==
  IF Len(rm) = 0 THEN FilterColumnEmpty(rm)
  ELSE IF UseIndexed(Len(rm), rm[1], rm[Len(rm)])
    THEN FilterColumnIndexed(c, col, rm)
  ELSE FilterColumnBounded(c, col, rm)

----------------------------------------------------------------------------
(* The state machine: a caller that holds a SimpleColumn and a row map and *)
(* calls FilterColumn (or one of the two algorithms) on them.              *)

VARIABLES
  table,    \* the table FilterLegacy filters (<<>> when a column is filtered)
  col,      \* the SimpleColumn of the calls
  rm,       \* the caller's row map, which FilterColumn rewrites in place
  last,     \* what the last call was given and did
  prev,     \* what the call before the last was given and did
  matching, \* FilterLegacy: the rows that satisfy every constraint so far
  state_,       \* SystraceTraceParser: the parse state
  partial_buf_, \* SystraceTraceParser: the bytes given and not yet consumed
  input,    \* the bytes of the trace file not yet given to Parse
  fed,      \* the bytes given to Parse so far
  events,   \* the calls of ParseSingleSystraceEvent so far, with what they did
  ret       \* what the last call of Parse returned

executor == <<table, col, rm, last, prev, matching>>

parser == <<state_, partial_buf_, input, fed, events, ret>>

vars == <<table, col, rm, last, prev, matching,
          state_, partial_buf_, input, fed, events, ret>>

\* The SystraceTraceParser as constructed, with no byte given to it.
ParserUnused ==
  /\ state_ = "kBeforeParse"
  /\ partial_buf_ = <<>>
  /\ input = <<>>
  /\ fed = <<>>
  /\ events = <<>>
  /\ ret = "none"

\* The strictly increasing sequence of the elements of a set of rows.
RECURSIVE SeqOfSet(_)
SeqOfSet(S) ==
  IF S = {} THEN <<>>
  ELSE LET m == CHOOSE x \in S : \A y \in S : x <= y
       IN <<m>> \o SeqOfSet(S \ {m})

\* The row maps over n rows.
RowMaps(n) == {SeqOfSet(S) : S \in SUBSET (0 .. (n - 1))}

BitVectors(n) == [1 .. n -> BOOLEAN]

Constraints == [op : FilterOps, value : ConstraintValues]

\* The SimpleColumns over n rows: a storage of n values and no overlay, or
\* one NullOverlay over n rows and a storage of as many values as the
\* overlay has non-null rows.
SimpleColumns(n) ==
  {[storage |-> st, overlays |-> <<>>] : st \in [1 .. n -> Values]}
  \cup
  UNION {{[storage |-> st, overlays |-> <<[non_null |-> bv]>>] :
            st \in [1 .. CountSetBits(bv) -> Values]} : bv \in BitVectors(n)}

NoCall == [called |-> "none", c |-> [op |-> "kEq", value |-> 0],
           rm_in |-> <<>>, algorithm |-> "none", fault |-> "none",
           log |-> <<>>, valid_size |-> 0, count_removed |-> 0]

\* The record of a call of fn with constraint c on the row map rm_in.
CallRecord(fn, c, rm_in, res) ==
  [called |-> fn, c |-> c, rm_in |-> rm_in, algorithm |-> res.algorithm,
   fault |-> res.fault, log |-> res.log, valid_size |-> res.valid_size,
   count_removed |-> res.count_removed]

Init ==
  /\ table = <<>>
  /\ col \in SimpleColumns(NumRows)
  /\ rm \in RowMaps(NumRows)
  /\ last = NoCall
  /\ prev = NoCall
  /\ matching = {}
  /\ ParserUnused

\* A call FilterColumn(c, col, &rm) with the constraint c.
DoFilterColumn(c) ==
  /\ last.fault = "none"
  /\ \E res \in {FilterColumn(c, col, rm)} :
       /\ rm' = res.rm
       /\ last' = CallRecord("FilterColumn", c, rm, res)
  /\ UNCHANGED <<table, col, matching>>
  /\ UNCHANGED parser

\* The first call of FilterColumn on the caller's row map.
FilterColumnCall ==
  /\ last.called = "none"
  /\ \E c \in Constraints : DoFilterColumn(c)
  /\ UNCHANGED prev

Next == FilterColumnCall

Spec == Init /\ [][Next]_vars

----------------------------------------------------------------------------
(* The two algorithms called on their own, on a non-empty row map (they    *)
(* read rm->Get(0), which FilterColumn guards with its empty check).       *)

InitAlgos ==
  /\ table = <<>>
  /\ col \in SimpleColumns(AlgoRows)
  /\ rm \in RowMaps(AlgoRows) \ {<<>>}
  /\ last = NoCall
  /\ prev = NoCall
  /\ matching = {}
  /\ ParserUnused

\* A call BoundedColumnFilter(c, col, &rm); rm takes the row map returned.
BoundedColumnFilterCall ==
  /\ last.called = "none"
  /\ \E c \in Constraints :
       \E res \in {BoundedColumnFilter(c, col, rm)} :
          /\ rm' = res.rm
          /\ last' = [called |-> "BoundedColumnFilter", c |-> c, rm_in |-> rm,
                      algorithm |-> "bounded", fault |-> "none",
                      log |-> res.log, valid_size |-> 0, count_removed |-> 0]
  /\ UNCHANGED <<table, col, prev, matching>>
  /\ UNCHANGED parser

\* A call IndexedColumnFilter(c, col, &rm); rm takes the row map returned.
IndexedColumnFilterCall ==
  /\ last.called = "none"
  /\ \E c \in Constraints :
       \E res \in {IndexedColumnFilter(c, col, rm)} :
          /\ rm' = res.rm
          /\ last' = [called |-> "IndexedColumnFilter", c |-> c, rm_in |-> rm,
                      algorithm |-> "indexed", fault |-> res.fault,
                      log |-> res.log, valid_size |-> Len(res.valid),
                      count_removed |-> res.count_removed]
  /\ UNCHANGED <<table, col, prev, matching>>
  /\ UNCHANGED parser

NextAlgos == BoundedColumnFilterCall \/ IndexedColumnFilterCall

SpecAlgos == InitAlgos /\ [][NextAlgos]_vars

----------------------------------------------------------------------------
(* A caller that applies one constraint after another to its row map, as   *)
(* the loop of FilterLegacy does with the constraints of its list.         *)

\* The row maps a run of two calls starts from: the full range
\* [0, NumRows), which FilterLegacy starts from, and the two-row maps sparse
\* enough for the indexed algorithm, which a filter on another column leaves.
StartRowMaps ==
  {RowMapOfRange(0, NumRows)}
  \cup {R \in RowMaps(NumRows) : Len(R) = 2 /\ UseIndexed(2, R[1], R[2])}

InitSeq ==
  /\ table = <<>>
  /\ col \in SimpleColumns(NumRows)
  /\ rm \in StartRowMaps
  /\ last = NoCall
  /\ prev = NoCall
  /\ matching = {}
  /\ ParserUnused

\* A SimpleColumn with fixed cells over n rows: the value 1 at every second
\* row under a NullOverlay whose other rows are null.
OtherColumn(n) ==
  [storage |-> [i \in 1 .. ((n + 1) \div 2) |-> 1],
   overlays |-> <<[non_null |-> [i \in 1 .. n |-> i % 2 = 1]]>>]

\* The second call of FilterColumn, on the row map the first call left and
\* on the same column or another one of the table; table keeps the column
\* of the first call.
FilterColumnAgain ==
  /\ last.called = "FilterColumn"
  /\ prev.called = "none"
  /\ \E s_col \in {col, OtherColumn(NumRows)} :
       \E c \in Constraints :
         \E res \in {FilterColumn(c, s_col, rm)} :
           /\ col' = s_col
           /\ rm' = res.rm
           /\ last' = CallRecord("FilterColumn", c, rm, res)
  /\ table' = <<col>>
  /\ prev' = last
  /\ UNCHANGED matching
  /\ UNCHANGED parser

NextSeq == FilterColumnCall \/ FilterColumnAgain

SpecSeq == InitSeq /\ [][NextSeq]_vars

----------------------------------------------------------------------------
(* FilterColumn on row maps whose size is around the limit of the indexed  *)
(* algorithm.                                                              *)

\* Rows of the column: enough for kIndexedMaxSize + 1 rows MaxStride apart.
StrategyRows == MaxStride * kIndexedMaxSize + 1

\* The row map of size rows, stride apart, from row 0.
StridedRowMap(size, stride) == [k \in 1 .. size |-> (k - 1) * stride]

\* The short row maps and the long ones, of one row less than
\* kIndexedMaxSize, of as many and of one more.
StrategyRowMaps ==
  RowMaps(NumRows)
  \cup {StridedRowMap(size, stride) :
          size \in {kIndexedMaxSize - 1, kIndexedMaxSize, kIndexedMaxSize + 1},
          stride \in 1 .. MaxStride}

\* The SimpleColumn over StrategyRows rows with the values 1, 0, 1, ... and
\* no overlay.
StrategyColumn ==
  [storage |-> [i \in 1 .. StrategyRows |-> i % 2], overlays |-> <<>>]

InitStrategy ==
  /\ table = <<>>
  /\ col = StrategyColumn
  /\ rm \in StrategyRowMaps
  /\ last = NoCall
  /\ prev = NoCall
  /\ matching = {}
  /\ ParserUnused

NextStrategy == FilterColumnCall

SpecStrategy == InitStrategy /\ [][NextStrategy]_vars

----------------------------------------------------------------------------
(* QueryExecutor::FilterLegacy.  A table is a sequence of columns          *)
(*   [col_type, type, is_sorted, is_dense, is_nullable,                    *)
(*    storage_base |-> [size, bv, data], overlay_rm]                       *)
(* where storage_base holds size rows, bv is set at its non-null rows and  *)
(* data holds the values of the non-null rows; overlay_rm is the row map   *)
(* of the column's overlay, from table rows to rows of storage_base.  An   *)
(* id or dummy column has no storage_base.  A constraint is                *)
(* [col_idx, op, value, value_type].                                       *)

\* Mutant: a NullOverlay is built for every column that has a storage,
\* nullable or not.
ColumnStorage_AlwaysOverlay(column) ==
  LET invalid_col_type == column.col_type \in {"kString", "kDummy", "kId"}
  IN IF invalid_col_type \/ column.is_sorted \/ column.is_dense
       THEN [storage |-> [present |-> FALSE],
             null_overlay |-> [present |-> FALSE]]
     ELSE [storage |-> [present |-> TRUE, data |-> column.storage_base.data],
           null_overlay |->
             [present |-> TRUE, non_null |-> column.storage_base.bv]]

\* The first loop of FilterLegacy for one column: the entries pushed to
\* storages and to null_overlays (present is FALSE for an empty unique_ptr).
ColumnStorage(column) ==
  LET invalid_col_type == column.col_type \in {"kString", "kDummy", "kId"}
  IN IF invalid_col_type \/ column.is_sorted \/ column.is_dense
       THEN [storage |-> [present |-> FALSE],
             null_overlay |-> [present |-> FALSE]]
     ELSE [storage |-> [present |-> TRUE, data |-> column.storage_base.data],
           null_overlay |->
             IF column.is_nullable
               THEN [present |-> TRUE, non_null |-> column.storage_base.bv]
               ELSE [present |-> FALSE]]

\* The vectors storages and null_overlays after the first loop.
Storages(t) == [i \in 1 .. Len(t) |-> ColumnStorage(t[i]).storage]

NullOverlays(t) == [i \in 1 .. Len(t) |-> ColumnStorage(t[i]).null_overlay]

\* Mutant: a type mismatch between the value and the column is ignored.
RoutedToLegacy_IgnoresType(t, c) ==
  LET column == t[c.col_idx + 1]
      no_storage == ~Storages(t)[c.col_idx + 1].present
      has_selector ==
        IF no_storage THEN TRUE
        ELSE Len(column.overlay_rm) # column.storage_base.size
  IN IF no_storage THEN TRUE ELSE has_selector

\* The test of the second loop of FilterLegacy that sends a constraint to
\* col.FilterInto; has_selector reads storage_base only when the column has
\* a storage.
RoutedToLegacy(t, c) ==
  LET column == t[c.col_idx + 1]
      no_storage == ~Storages(t)[c.col_idx + 1].present
      mismatched_col_type == column.type # c.value_type
      has_selector ==
        IF no_storage THEN TRUE
        ELSE Len(column.overlay_rm) # column.storage_base.size
  IN IF no_storage \/ mismatched_col_type THEN TRUE ELSE has_selector

\* Mutant: the null overlay of a nullable column is left out of the column.
SimpleColumnOf_NoOverlay(t, c) ==
  [storage |-> Storages(t)[c.col_idx + 1].data, overlays |-> <<>>]

\* The SimpleColumn s_col FilterLegacy builds for a constraint it sends to
\* FilterColumn.
SimpleColumnOf(t, c) ==
  [storage |-> Storages(t)[c.col_idx + 1].data,
   overlays |-> IF NullOverlays(t)[c.col_idx + 1].present
                  THEN <<[non_null |-> NullOverlays(t)[c.col_idx + 1].non_null]>>
                  ELSE <<>>]

\* The cell of a column at a table row, as the legacy filter reads it: an id
\* column holds the index its overlay gives the row, any other column the
\* cell of storage_base at that index.
LegacyCell(column, r) ==
  LET idx == column.overlay_rm[r + 1]
  IN IF column.col_type = "kId" THEN [null |-> FALSE, value |-> idx]
     ELSE IF ~column.storage_base.bv[idx + 1] THEN [null |-> TRUE, value |-> 0]
     ELSE [null |-> FALSE,
           value |-> column.storage_base.data[
                       CountSetBitsUntil(column.storage_base.bv, idx) + 1]]

\* Whether the cell of a column at a table row satisfies a constraint.
CellSatisfies(column, r, c) ==
  LET cell == LegacyCell(column, r)
  IN CASE c.op = "kIsNull" -> cell.null
       [] c.op = "kIsNotNull" -> ~cell.null
       [] OTHER -> ~cell.null /\ Compare(c.op, cell.value, c.value)

\* Column::FilterInto(op, value, &rm): restricts rm to the rows whose cell
\* satisfies the constraint.
FilterInto(column, c, rm_in) ==
  SelectSeq(rm_in, LAMBDA r : CellSatisfies(column, r, c))

SqlValueTypes == {"kLong", "kString"}

\* Column::type() of a column type.
SqlTypeOf(col_type) == IF col_type = "kString" THEN "kString" ELSE "kLong"

\* The storage_base records over n rows without a null, and all of them.
PlainBases(n) ==
  {[size |-> n, bv |-> [i \in 1 .. n |-> TRUE], data |-> d] :
     d \in [1 .. n -> Values]}

NullableBases(n) ==
  UNION {{[size |-> n, bv |-> bv, data |-> d] :
            d \in [1 .. CountSetBits(bv) -> Values]} : bv \in BitVectors(n)}

IsSortedSeq(d) == \A i \in 1 .. (Len(d) - 1) : d[i] <= d[i + 1]

Column(col_type, sorted, dense, nullable, base, overlay_rm) ==
  [col_type |-> col_type, type |-> SqlTypeOf(col_type), is_sorted |-> sorted,
   is_dense |-> dense, is_nullable |-> nullable, storage_base |-> base,
   overlay_rm |-> overlay_rm]

\* The columns of a table of n rows: integer columns (plain or nullable),
\* sorted and dense ones, string columns, integer columns behind a row
\* selector that drops the first or the last row of a storage of n + 1
\* rows, the id column and a dummy column.
Columns(n) ==
  {Column("kInt64", FALSE, FALSE, FALSE, b, RowMapOfRange(0, n)) :
     b \in PlainBases(n)}
  \cup {Column("kInt64", FALSE, FALSE, TRUE, b, RowMapOfRange(0, n)) :
          b \in NullableBases(n)}
  \cup {Column("kInt64", TRUE, FALSE, FALSE, b, RowMapOfRange(0, n)) :
          b \in {x \in PlainBases(n) : IsSortedSeq(x.data)}}
  \cup {Column("kInt64", FALSE, TRUE, TRUE, b, RowMapOfRange(0, n)) :
          b \in NullableBases(n)}
  \cup {Column("kString", FALSE, FALSE, FALSE, b, RowMapOfRange(0, n)) :
          b \in PlainBases(n)}
  \cup UNION {{Column("kInt64", FALSE, FALSE, FALSE, b,
                       RowMapOfRange(k, n + k)) :
                  b \in {x \in PlainBases(n + 1) :
                           x.data[(1 - k) * n + 1] = 0}} : k \in {0, 1}}
  \cup {[col_type |-> "kId", type |-> "kLong", is_sorted |-> TRUE,
         is_dense |-> FALSE, is_nullable |-> FALSE,
         overlay_rm |-> RowMapOfRange(0, n)],
        [col_type |-> "kDummy", type |-> "kLong", is_sorted |-> FALSE,
         is_dense |-> FALSE, is_nullable |-> FALSE,
         overlay_rm |-> RowMapOfRange(0, n)]}

\* One column of each kind with fixed cells: the values alternate 1, 0, 1
\* and, where the column is nullable, every second row is null.
SampleColumns(n) ==
  LET alt == [size |-> n, bv |-> [i \in 1 .. n |-> TRUE],
              data |-> [i \in 1 .. n |-> i % 2]]
      holes == [size |-> n, bv |-> [i \in 1 .. n |-> i % 2 = 1],
                data |-> [i \in 1 .. ((n + 1) \div 2) |-> 1]]
      steps == [size |-> n, bv |-> [i \in 1 .. n |-> TRUE],
                data |-> [i \in 1 .. n |-> IF i = n THEN 1 ELSE 0]]
      wide == [size |-> n + 1, bv |-> [i \in 1 .. (n + 1) |-> TRUE],
               data |-> [i \in 1 .. (n + 1) |-> (i + 1) % 2]]
  IN {Column("kInt64", FALSE, FALSE, FALSE, alt, RowMapOfRange(0, n)),
      Column("kInt64", FALSE, FALSE, TRUE, holes, RowMapOfRange(0, n)),
      Column("kInt64", TRUE, FALSE, FALSE, steps, RowMapOfRange(0, n)),
      Column("kInt64", FALSE, TRUE, TRUE, holes, RowMapOfRange(0, n)),
      Column("kString", FALSE, FALSE, FALSE, alt, RowMapOfRange(0, n)),
      Column("kInt64", FALSE, FALSE, FALSE, wide, RowMapOfRange(1, n + 1))}
     \cup {x \in Columns(n) : x.col_type \in {"kId", "kDummy"}}

\* The tables of two columns: any column beside a sample column, in either
\* order.
Tables(n) ==
  UNION {{<<a, b>>, <<b, a>>} : a \in Columns(n), b \in SampleColumns(n)}

\* The operations of the constraints given to FilterLegacy: with the value
\* 1 they select the cells that are 1, that are 0, the null ones and the
\* others.
LegacyOps == {"kEq", "kNe", "kIsNull", "kIsNotNull"}

\* The constraints on the columns of a table; a dummy column is not filtered.
LegacyConstraints(t) ==
  {c \in [col_idx : 0 .. (Len(t) - 1), op : LegacyOps,
          value : ConstraintValues, value_type : SqlValueTypes] :
     t[c.col_idx + 1].col_type # "kDummy"}

NoColumn == [storage |-> <<>>, overlays |-> <<>>]

\* FilterLegacy has run its first loop and made the row map
\* [0, row_count); no constraint is processed yet.
InitLegacy ==
  /\ table \in Tables(LegacyRows)
  /\ col = NoColumn
  /\ rm = RowMapOfRange(0, LegacyRows)
  /\ last = NoCall
  /\ prev = NoCall
  /\ matching = 0 .. (LegacyRows - 1)
  /\ ParserUnused

\* An iteration of the second loop of FilterLegacy whose constraint goes to
\* the legacy filter col.FilterInto.
FilterLegacyInto ==
  /\ \E c \in LegacyConstraints(table) :
       /\ RoutedToLegacy(table, c)
       /\ rm' = FilterInto(table[c.col_idx + 1], c, rm)
       /\ last' = [NoCall EXCEPT !.called = "FilterInto", !.c = c, !.rm_in = rm]
       /\ matching' = {r \in matching : CellSatisfies(table[c.col_idx + 1], r, c)}
  /\ col' = NoColumn
  /\ UNCHANGED <<table, prev>>
  /\ UNCHANGED parser

\* Mutant: every constraint that goes to FilterColumn is applied to a fresh
\* row map [0, row_count) instead of the one the previous constraint left.
FilterLegacyColumn_FreshRowMap ==
  /\ last.fault = "none"
  /\ \E c \in LegacyConstraints(table) :
       /\ ~RoutedToLegacy(table, c)
       /\ \E s_col \in {SimpleColumnOf(table, c)} :
            \E res \in {FilterColumn(c, s_col, RowMapOfRange(0, LegacyRows))} :
               /\ col' = s_col
               /\ rm' = res.rm
               /\ last' = CallRecord("FilterColumn", c,
                                     RowMapOfRange(0, LegacyRows), res)
       /\ matching' = {r \in matching : CellSatisfies(table[c.col_idx + 1], r, c)}
  /\ UNCHANGED <<table, prev>>
  /\ UNCHANGED parser

\* An iteration of the second loop of FilterLegacy whose constraint goes to
\* FilterColumn on the SimpleColumn built for its column.
FilterLegacyColumn ==
  /\ last.fault = "none"
  /\ \E c \in LegacyConstraints(table) :
       /\ ~RoutedToLegacy(table, c)
       /\ \E s_col \in {SimpleColumnOf(table, c)} :
            \E res \in {FilterColumn(c, s_col, rm)} :
               /\ col' = s_col
               /\ rm' = res.rm
               /\ last' = CallRecord("FilterColumn", c, rm, res)
       /\ matching' = {r \in matching : CellSatisfies(table[c.col_idx + 1], r, c)}
  /\ UNCHANGED <<table, prev>>
  /\ UNCHANGED parser

NextLegacy == FilterLegacyInto \/ FilterLegacyColumn

SpecLegacy == InitLegacy /\ [][NextLegacy]_vars

----------------------------------------------------------------------------
(* The scenario column: FilterColumn on the five-element storage           *)
(* [10, 20, 30, 40, 50] without overlay.                                   *)

ScenarioColumn == [storage |-> <<10, 20, 30, 40, 50>>, overlays |-> <<>>]

\* The constraints of the scenarios: any operator against 15 or 35.
ScenarioConstraints == [op : FilterOps, value : {15, 35}]

InitScenario ==
  /\ table = <<>>
  /\ col = ScenarioColumn
  /\ rm \in RowMaps(Len(ScenarioColumn.storage))
  /\ last = NoCall
  /\ prev = NoCall
  /\ matching = {}
  /\ ParserUnused

\* A call FilterColumn(c, col, &rm) with a constraint of the scenarios.
FilterColumnScenario ==
  /\ last.called = "none"
  /\ \E c \in ScenarioConstraints : DoFilterColumn(c)
  /\ UNCHANGED prev

NextScenario == FilterColumnScenario

SpecScenario == InitScenario /\ [][NextScenario]_vars

----------------------------------------------------------------------------
(* The two algorithms followed step by step, one overlay call or storage   *)
(* call per step, on columns with a stack of up to MaxOverlays             *)
(* NullOverlays.  last holds the frame of the running call: its position   *)
(* pc, its locals and the trace of the calls made, each with its argument  *)
(* and its result, and the row map rm the call was given a pointer to.     *)
(* The caller is FilterColumn at its two call sites; the density test is   *)
(* left out, so each algorithm is followed on every non-empty row map.     *)

\* The SimpleColumns over n rows with a stack of exactly d NullOverlays:
\* each overlay covers the non-null rows of the one above it.
RECURSIVE Stacks(_, _)
Stacks(n, d) ==
  IF d = 0 THEN {[storage |-> st, overlays |-> <<>>] : st \in [1 .. n -> Values]}
  ELSE UNION {{[storage |-> inner.storage,
                overlays |-> <<[non_null |-> bv]>> \o inner.overlays] :
                 inner \in Stacks(CountSetBits(bv), d - 1)} :
              bv \in BitVectors(n)}

StackColumns(n, depth) == UNION {Stacks(n, d) : d \in 0 .. depth}

\* An entry of the trace of a frame: the function, the position of the
\* overlay it is called on (-1 for the storage), its argument and its result.
TraceCall(fn, ov, arg, out) == [fn |-> fn, ov |-> ov, arg |-> arg, out |-> out]

\* BoundedColumnFilter entered: table_range is [rm->Get(0), last + 1).
BoundedStart(c, s_col, rm_in) ==
  [called |-> "BoundedColumnFilter",
   pc |-> IF s_col.overlays = <<>> THEN "search" ELSE "forward",
   c |-> c, rm_in |-> rm_in, rm |-> rm_in, k |-> 0,
   range |-> [start |-> rm_in[1], end |-> rm_in[Len(rm_in)] + 1],
   bv |-> <<>>, trace |-> <<>>]

\* Mutant: the first loop stops after the outermost overlay.
BoundedForward_FirstOnly(s_col, f) ==
  LET storage_range == MapToStorageRange(s_col.overlays[f.k + 1], f.range)
  IN [f EXCEPT !.range = storage_range, !.k = f.k + 1, !.pc = "search",
               !.trace = Append(f.trace,
                                TraceCall("MapToStorageRange", f.k, f.range,
                                          storage_range))]

\* One iteration of the first loop of BoundedColumnFilter, on overlay f.k.
BoundedForward(s_col, f) ==
  LET storage_range == MapToStorageRange(s_col.overlays[f.k + 1], f.range)
  IN [f EXCEPT !.range = storage_range, !.k = f.k + 1,
               !.pc = IF f.k + 1 < Len(s_col.overlays) THEN "forward"
                      ELSE "search",
               !.trace = Append(f.trace,
                                TraceCall("MapToStorageRange", f.k, f.range,
                                          storage_range))]

\* Mutant: BoundedColumnFilter narrows the row map it was given to the
\* range it searches.
BoundedSearch_WritesRowMap(s_col, f) ==
  LET filtered_storage ==
        StorageLinearSearch(s_col.storage, f.c.op, f.c.value, f.range)
  IN [f EXCEPT !.bv = filtered_storage, !.k = 0,
               !.rm = RowMapOfBitVector(filtered_storage),
               !.pc = IF s_col.overlays = <<>> THEN "return" ELSE "reverse",
               !.trace = Append(f.trace,
                                TraceCall("LinearSearch", -1, f.range,
                                          filtered_storage))]

\* Mutant: on an empty storage range BoundedColumnFilter returns at once,
\* without LinearSearch and without the second loop.
BoundedSearch_SkipsEmptyRange(s_col, f) ==
  LET filtered_storage ==
        StorageLinearSearch(s_col.storage, f.c.op, f.c.value, f.range)
  IN IF f.range.start = f.range.end
       THEN [f EXCEPT !.bv = <<>>, !.k = 0, !.pc = "return"]
     ELSE [f EXCEPT !.bv = filtered_storage, !.k = 0,
                    !.pc = IF s_col.overlays = <<>> THEN "return"
                           ELSE "reverse",
                    !.trace = Append(f.trace,
                                     TraceCall("LinearSearch", -1, f.range,
                                               filtered_storage))]

\* The LinearSearch of BoundedColumnFilter on the range the first loop left.
BoundedSearch(s_col, f) ==
  LET filtered_storage ==
        StorageLinearSearch(s_col.storage, f.c.op, f.c.value, f.range)
  IN [f EXCEPT !.bv = filtered_storage, !.k = 0,
               !.pc = IF s_col.overlays = <<>> THEN "return" ELSE "reverse",
               !.trace = Append(f.trace,
                                TraceCall("LinearSearch", -1, f.range,
                                          filtered_storage))]

\* One iteration of the second loop of BoundedColumnFilter: f.k is i, the
\* overlay visited is rev_i.
BoundedReverse(s_col, f) ==
  LET rev_i == Len(s_col.overlays) - 1 - f.k
      mapped_to_table ==
        MapToTableBitVector(s_col.overlays[rev_i + 1], f.bv,
                            FilterOpToOverlayOp(f.c.op))
  IN [f EXCEPT !.bv = mapped_to_table, !.k = f.k + 1,
               !.pc = IF f.k + 1 < Len(s_col.overlays) THEN "reverse"
                      ELSE "return",
               !.trace = Append(f.trace,
                                TraceCall("MapToTableBitVector", rev_i, f.bv,
                                          mapped_to_table))]

\* IndexedColumnFilter entered: the helper holds the rows of rm.
IndexedStartFrame(c, s_col, rm_in) ==
  [called |-> "IndexedColumnFilter",
   pc |-> IF s_col.overlays = <<>> THEN "search" ELSE "forward",
   c |-> c, rm_in |-> rm_in, rm |-> rm_in, k |-> 0,
   st |-> IndexedStart(rm_in), trace |-> <<>>]

\* One iteration of the overlay loop of IndexedColumnFilter, on overlay f.k;
\* the trace takes the partition the overlay gave for the helper's current.
IndexedForward(s_col, f) ==
  LET op == FilterOpToOverlayOp(f.c.op)
      partition ==
        IsStorageLookupRequired(s_col.overlays[f.k + 1], op,
                                f.st.to_filter.current)
      st == IndexedOverlayStep(s_col.overlays[f.k + 1], f.k + 1, op, f.st)
  IN [f EXCEPT !.st = st, !.k = f.k + 1,
               !.pc = IF st.fault # "none" THEN "done"
                      ELSE IF f.k + 1 < Len(s_col.overlays) THEN "forward"
                      ELSE "search",
               !.trace = Append(f.trace,
                                TraceCall("IsStorageLookupRequired", f.k,
                                          f.st.to_filter.current, partition))]

\* The storage step of IndexedColumnFilter; the trace takes the indices
\* given to the storage and the bits it returned.
IndexedSearch(s_col, f) ==
  LET st == IndexedStorageStep(f.c, s_col, f.st)
  IN [f EXCEPT !.st = st,
               !.pc = IF st.fault # "none" THEN "done" ELSE "return",
               !.trace = Append(f.trace,
                                TraceCall("IndexSearch", -1,
                                          f.st.to_filter.current,
                                          StorageIndexSearch(
                                            s_col.storage, f.c.op, f.c.value,
                                            f.st.to_filter.current)))]

InitSteps ==
  /\ table = <<>>
  /\ col \in StackColumns(StepRows, MaxOverlays)
  /\ rm \in RowMaps(StepRows) \ {<<>>}
  /\ last = NoCall
  /\ prev = NoCall
  /\ matching = {}
  /\ ParserUnused

\* FilterColumn calls BoundedColumnFilter(c, col, rm).
EnterBounded ==
  /\ last.called = "none"
  /\ \E c \in Constraints : last' = BoundedStart(c, col, rm)
  /\ UNCHANGED <<table, col, rm, prev, matching>>
  /\ UNCHANGED parser

\* FilterColumn calls IndexedColumnFilter(c, col, rm).
EnterIndexed ==
  /\ last.called = "none"
  /\ \E c \in Constraints : last' = IndexedStartFrame(c, col, rm)
  /\ UNCHANGED <<table, col, rm, prev, matching>>
  /\ UNCHANGED parser

\* An overlay is visited on the way to the storage.
StepForward ==
  /\ last.called \in {"BoundedColumnFilter", "IndexedColumnFilter"}
  /\ last.pc = "forward"
  /\ last' = IF last.called = "BoundedColumnFilter"
               THEN BoundedForward(col, last)
             ELSE IndexedForward(col, last)
  /\ rm' = last'.rm
  /\ UNCHANGED <<table, col, prev, matching>>
  /\ UNCHANGED parser

\* The storage is searched.
StepSearch ==
  /\ last.called \in {"BoundedColumnFilter", "IndexedColumnFilter"}
  /\ last.pc = "search"
  /\ last' = IF last.called = "BoundedColumnFilter"
               THEN BoundedSearch(col, last)
             ELSE IndexedSearch(col, last)
  /\ rm' = last'.rm
  /\ UNCHANGED <<table, col, prev, matching>>
  /\ UNCHANGED parser

\* An overlay is visited on the way back to the table (bounded only).
StepReverse ==
  /\ last.called = "BoundedColumnFilter"
  /\ last.pc = "reverse"
  /\ last' = BoundedReverse(col, last)
  /\ rm' = last'.rm
  /\ UNCHANGED <<table, col, prev, matching>>
  /\ UNCHANGED parser

\* The row map FilterColumn leaves when the algorithm of the frame has
\* returned: the bounded result is intersected into it, the sorted valid
\* list replaces it (a failed PERFETTO_CHECK ends the run instead).
Returned(f) ==
  IF f.called = "BoundedColumnFilter"
    THEN RowMapIntersect(f.rm, RowMapOfBitVector(f.bv))
  ELSE IF Len(f.rm) = Len(f.st.valid) + f.st.count_removed
    THEN Sort(f.st.valid)
  ELSE f.rm

\* The algorithm returns and FilterColumn writes the row map.
StepReturn ==
  /\ last.called \in {"BoundedColumnFilter", "IndexedColumnFilter"}
  /\ last.pc = "return"
  /\ last' = [last EXCEPT !.pc = "done", !.rm = Returned(last)]
  /\ rm' = last'.rm
  /\ UNCHANGED <<table, col, prev, matching>>
  /\ UNCHANGED parser

NextSteps ==
  \/ EnterBounded
  \/ EnterIndexed
  \/ StepForward
  \/ StepSearch
  \/ StepReverse
  \/ StepReturn

SpecSteps == InitSteps /\ [][NextSteps]_vars

----------------------------------------------------------------------------
(* IndexFilterHelper::KeepAtSet called on its own, on every helper of up   *)
(* to KeepRows pairs and every bit vector of up to KeepRows + 1 bits.      *)

\* Pairs of a helper and bits of a bit vector.
KeepRows == 3

\* The helpers of up to n pairs: global holds distinct rows in ascending
\* order, current any index for each of them.
Helpers(n) ==
  UNION {{[current |-> cur, global |-> glob] :
            cur \in [1 .. Len(glob) -> 0 .. (n - 1)]} :
         glob \in RowMaps(n)}

\* The positions at which the filter lambda of KeepAtSet calls
\* filter_nulls.IsSet, in order: std::remove_if applies the filter once to
\* each element of current_, i is set back to 0, and once to each element
\* of global_.  Nothing is read when the PERFETTO_CHECK fails.
KeepAtSetReads(helper, filter_nulls) ==
  IF KeepAtSet(helper, filter_nulls).fault = "check" THEN <<>>
  ELSE [i \in 1 .. Len(helper.current) |-> i - 1]
         \o [i \in 1 .. Len(helper.global) |-> i - 1]

\* What a call of KeepAtSet can leave.  IsSet past the end of filter_nulls
\* is undefined: the call is stopped (the helper is left as it was), or
\* each such position reads as some bit, the same for current_ and global_.
KeepAtSetOutcomes(helper, filter_nulls) ==
  LET res == KeepAtSet(helper, filter_nulls)
      missing == Len(helper.current) - Len(filter_nulls)
  IN IF res.fault # "oob" THEN {res}
     ELSE {res}
          \cup {[helper |->
                   [current |-> RemoveIfNotSet(helper.current,
                                               filter_nulls \o pad),
                    global |-> RemoveIfNotSet(helper.global,
                                              filter_nulls \o pad)],
                 count_removed |-> res.count_removed,
                 fault |-> "oob"] : pad \in BitVectors(missing)}

\* The record of a call of KeepAtSet: its arguments, the positions read
\* and what it left.
KeepAtSetRecord(helper, filter_nulls, res) ==
  [called |-> "KeepAtSet", helper |-> helper, filter_nulls |-> filter_nulls,
   reads |-> KeepAtSetReads(helper, filter_nulls), res |-> res]

InitKeepAtSet ==
  /\ table = <<>>
  /\ col = [storage |-> <<>>, overlays |-> <<>>]
  /\ rm = <<>>
  /\ last = NoCall
  /\ prev \in [called : {"none"}, helper : Helpers(KeepRows),
               filter_nulls : UNION {BitVectors(k) : k \in 0 .. KeepRows + 1}]
  /\ matching = {}
  /\ ParserUnused

\* A call prev.helper.KeepAtSet(prev.filter_nulls).
KeepAtSetCall ==
  /\ last.called = "none"
  /\ \E res \in KeepAtSetOutcomes(prev.helper, prev.filter_nulls) :
       last' = KeepAtSetRecord(prev.helper, prev.filter_nulls, res)
  /\ UNCHANGED <<table, col, rm, prev, matching>>
  /\ UNCHANGED parser

NextKeepAtSet == KeepAtSetCall

SpecKeepAtSet == InitKeepAtSet /\ [][NextKeepAtSet]_vars

----------------------------------------------------------------------------
(* The systrace importer of                                                *)
(* src/trace_processor/importers/systrace/systrace_trace_parser.cc.  A     *)
(* std::string or a byte buffer is a sequence of one-character strings;    *)
(* positions are 0-based as in the code, so character i of the code is     *)
(* element i + 1 of the sequence.                                          *)

\* size_t arithmetic wraps around; the model keeps the wrap-around with a
\* modulus far above every length here, and npos is its largest value.
SizeMod == 1048576

npos == SizeMod - 1

SizeAdd(a, b) == (a + b) % SizeMod

SizeSub(a, b) == (a - b + SizeMod) % SizeMod

\* std::isspace in the C locale.
IsSpace(ch) == ch \in {" ", "\t", "\n", "\r"}

Digits == <<"0", "1", "2", "3", "4", "5", "6", "7", "8", "9">>

IsDigit(ch) == \E d \in 1 .. 10 : Digits[d] = ch

DigitValue(ch) == (CHOOSE d \in 1 .. 10 : Digits[d] = ch) - 1

\* std::string::find(ch, pos): the first position at or after pos that
\* holds ch, npos when there is none.
Find(s, ch, pos) ==
  LET hits == {i \in 0 .. (Len(s) - 1) : i >= pos /\ s[i + 1] = ch}
  IN IF hits = {} THEN npos
     ELSE CHOOSE i \in hits : \A j \in hits : i <= j

\* std::string::substr(pos, n): throws std::out_of_range when pos is past
\* the end, and stops at the end of the string.
Substr(s, pos, n) ==
  IF pos > Len(s) THEN [fault |-> "out_of_range", str |-> <<>>]
  ELSE [fault |-> "none",
        str |-> SubSeq(s, pos + 1,
                       IF n < Len(s) - pos THEN pos + n ELSE Len(s))]

\* The two erase calls of SubstrTrim: the spaces before the first and after
\* the last character that is not a space are removed.
Trim(s) ==
  LET solid == {i \in 1 .. Len(s) : ~IsSpace(s[i])}
  IN IF solid = {} THEN <<>>
     ELSE SubSeq(s, CHOOSE i \in solid : \A j \in solid : i <= j,
                 CHOOSE i \in solid : \A j \in solid : i >= j)

\* SubstrTrim(input, start, end).
SubstrTrim(s, start, end) ==
  LET sub == Substr(s, start, SizeSub(end, start))
  IN [fault |-> sub.fault, str |-> Trim(sub.str)]

\* FindTask(line): <<start, length>>.
FindTask(line) ==
  LET solid == {i \in 0 .. (Len(line) - 1) : ~IsSpace(line[i + 1])}
      start == IF solid = {} THEN Len(line)
               ELSE CHOOSE i \in solid : \A j \in solid : i <= j
      dashes == {i \in start .. (Len(line) - 1) : line[i + 1] = "-"}
      stop == IF dashes = {} THEN Len(line)
              ELSE CHOOSE i \in dashes : \A j \in dashes : i <= j
  IN <<start, stop - start>>

\* The value of a string of decimal digits.
RECURSIVE DecimalValue(_)
DecimalValue(s) ==
  IF s = <<>> THEN 0
  ELSE 10 * DecimalValue(SubSeq(s, 1, Len(s) - 1)) + DigitValue(s[Len(s)])

NoValue == [has_value |-> FALSE]

\* base::StringToUInt32: the value of a string that is a decimal number as
\* a whole, no value for the empty string and for a string with any other
\* character.  (A sign is not modelled: no line here has one before digits.)
StringToUInt32(s) ==
  IF s # <<>> /\ \A i \in 1 .. Len(s) : IsDigit(s[i])
    THEN [has_value |-> TRUE, value |-> DecimalValue(s)]
  ELSE NoValue

\* base::StringToInt32 on the strings of digits the lines here hold.
StringToInt32(s) == StringToUInt32(s)

\* base::StringToDouble: the value of a string of digits with at most one
\* point, as the number of its digits and the count of those after the
\* point (value = digits / 10^frac); no value for any other string.
StringToDouble(s) ==
  LET points == {i \in 1 .. Len(s) : s[i] = "."}
      digits == SelectSeq(s, IsDigit)
  IN IF /\ digits # <<>>
        /\ Cardinality(points) <= 1
        /\ Len(digits) + Cardinality(points) = Len(s)
       THEN [has_value |-> TRUE, digits |-> DecimalValue(digits),
             frac |-> IF points = {} THEN 0
                      ELSE Len(s) - (CHOOSE i \in points : TRUE)]
     ELSE NoValue

RECURSIVE Pow10(_)
Pow10(n) == IF n = 0 THEN 1 ELSE 10 * Pow10(n - 1)

\* static_cast<int64_t>(value * 1e9) of a value StringToDouble gave.
ToNanos(d) ==
  IF d.frac <= 9 THEN d.digits * Pow10(9 - d.frac)
  ELSE d.digits \div Pow10(d.frac - 9)

\* base::StringSplitter(str, delimiter): the non-empty tokens of str between
\* delimiters, in order.
RECURSIVE SplitTokens(_, _)
SplitTokens(s, delim) ==
  IF s = <<>> THEN <<>>
  ELSE LET at == Find(s, delim, 0)
       IN IF at = npos THEN <<s>>
          ELSE IF at = 0 THEN SplitTokens(SubSeq(s, 2, Len(s)), delim)
          ELSE <<SubSeq(s, 1, at)>>
                 \o SplitTokens(SubSeq(s, at + 2, Len(s)), delim)

\* base::Contains(haystack, needle) and base::StartsWith(str, prefix).
Contains(haystack, needle) ==
  \E i \in 0 .. (Len(haystack) - Len(needle)) :
    SubSeq(haystack, i + 1, i + Len(needle)) = needle

StartsWith(str, prefix) ==
  /\ Len(prefix) <= Len(str)
  /\ SubSeq(str, 1, Len(prefix)) = prefix

\* The value args[key] of the unordered_map filled by emplace: the value of
\* the first pair with the key, the empty string when there is none.
ArgValue(args, key) ==
  LET at == {i \in 1 .. Len(args) : args[i][1] = key}
  IN IF at = {} THEN <<>>
     ELSE args[CHOOSE i \in at : \A j \in at : i <= j][2]

\* The loop that fills args from args_str: one pair per token between
\* spaces, its key the first piece between '=' and its value the last of
\* the others (empty when there is none).
ParseArgs(args_str) ==
  LET tokens == SplitTokens(args_str, " ")
  IN [i \in 1 .. Len(tokens) |->
        LET pieces == SplitTokens(tokens[i], "=")
        IN <<IF pieces = <<>> THEN <<>> ELSE pieces[1],
             IF Len(pieces) < 2 THEN <<>> ELSE pieces[Len(pieces)]>>]

\* ftrace_utils::TaskState(str).raw_state() for the one-letter states.
TaskStateRaw(str) ==
  CASE str = <<"S">> -> 1
    [] str = <<"D">> -> 2
    [] OTHER -> 0

\* What a call of ParseSingleSystraceEvent did: the status it returned, the
\* fault that ended it instead ("out_of_range" of substr, "check" of
\* Optional::value), and the tracker calls it made.
EventOutcome(message, detail, fault, calls) ==
  [message |-> message, detail |-> detail, fault |-> fault, calls |-> calls]

TrackerCall(fn, args) == [fn |-> fn, args |-> args]

\* The values Optional::value() may hand out when the optional is empty and
\* the read is not stopped (the digits of the double read from the storage).
Indeterminate == {0, 1}

\* The cpu_idle branch of ParseSingleSystraceEvent: the outcomes it can have.
CpuIdleEvent(args, ts, calls) ==
  LET event_cpu == StringToUInt32(ArgValue(args, <<"c", "p", "u", "_", "i", "d">>))
      new_state == StringToDouble(ArgValue(args, <<"s", "t", "a", "t", "e">>))
  IN IF ~event_cpu.has_value
       THEN {EventOutcome("Could not convert event cpu", <<>>, "none", calls)}
     ELSE IF ~event_cpu.has_value
       THEN {EventOutcome("Could not convert state", <<>>, "none", calls)}
     ELSE IF new_state.has_value
       THEN {EventOutcome("OK", <<>>, "none",
                          Append(calls,
                                 TrackerCall("PushCounter",
                                             <<ts, new_state, "cpuidle",
                                               event_cpu.value>>)))}
     ELSE {EventOutcome("", <<>>, "check", calls)}
          \cup {EventOutcome("OK", <<>>, "none",
                             Append(calls,
                                    TrackerCall("PushCounter",
                                                <<ts,
                                                  [has_value |-> FALSE,
                                                   digits |-> v, frac |-> 0],
                                                  "cpuidle",
                                                  event_cpu.value>>))) :
                  v \in Indeterminate}

\* The sched_switch branch.
SchedSwitchEvent(args, ts, cpu, calls) ==
  LET prev_state == TaskStateRaw(ArgValue(args, <<"p", "r", "e", "v", "_", "s", "t", "a", "t", "e">>))
      prev_pid == StringToUInt32(ArgValue(args, <<"p", "r", "e", "v", "_", "p", "i", "d">>))
      prev_comm == ArgValue(args, <<"p", "r", "e", "v", "_", "c", "o", "m", "m">>)
      prev_prio == StringToInt32(ArgValue(args, <<"p", "r", "e", "v", "_", "p", "r", "i", "o">>))
      next_pid == StringToUInt32(ArgValue(args, <<"n", "e", "x", "t", "_", "p", "i", "d">>))
      next_comm == ArgValue(args, <<"n", "e", "x", "t", "_", "c", "o", "m", "m">>)
      next_prio == StringToInt32(ArgValue(args, <<"n", "e", "x", "t", "_", "p", "r", "i", "o">>))
  IN IF ~(prev_pid.has_value /\ prev_prio.has_value
          /\ next_pid.has_value /\ next_prio.has_value)
       THEN {EventOutcome("Could not parse sched_switch", <<>>, "none", calls)}
     ELSE {EventOutcome("OK", <<>>, "none",
                        Append(calls,
                               TrackerCall("PushSchedSwitch",
                                           <<cpu, ts, prev_pid.value, prev_comm,
                                             prev_prio.value, prev_state,
                                             next_pid.value, next_comm,
                                             next_prio.value>>)))}

\* The sched_wakeup branch.
SchedWakeupEvent(args, ts, calls) ==
  LET comm == ArgValue(args, <<"c", "o", "m", "m">>)
      wakee_pid == StringToUInt32(ArgValue(args, <<"p", "i", "d">>))
  IN IF ~wakee_pid.has_value
       THEN {EventOutcome("Could not convert wakee_pid", <<>>, "none", calls)}
     ELSE {EventOutcome("OK", <<>>, "none",
                        calls
                          \o <<TrackerCall("UpdateThreadName",
                                           <<wakee_pid.value, comm>>),
                               TrackerCall("PushInstant",
                                           <<ts, "sched_wakeup", 0,
                                             wakee_pid.value>>)>>)}

\* The branches of ParseSingleSystraceEvent on the event name fn.
DispatchEvent(fn, args, args_str, ts, pid, cpu, calls) ==
  IF fn = <<"s", "c", "h", "e", "d", "_", "s", "w", "i", "t", "c", "h">>
    THEN SchedSwitchEvent(args, ts, cpu, calls)
  ELSE IF fn = <<"t", "r", "a", "c", "i", "n", "g", "_", "m", "a", "r", "k", "_", "w", "r", "i", "t", "e">>
          \/ fn = <<"0">> \/ fn = <<"p", "r", "i", "n", "t">>
    THEN {EventOutcome("OK", <<>>, "none",
                       Append(calls,
                              TrackerCall("ParsePrintEvent",
                                          <<ts, pid, args_str>>)))}
  ELSE IF fn = <<"s", "c", "h", "e", "d", "_", "w", "a", "k", "e", "u", "p">>
    THEN SchedWakeupEvent(args, ts, calls)
  ELSE IF fn = <<"c", "p", "u", "_", "i", "d", "l", "e">>
    THEN CpuIdleEvent(args, ts, calls)
  ELSE {EventOutcome("OK", <<>>, "none", calls)}

\* ParseSingleSystraceEvent from the timestamp on: ts, fn, args_str, args
\* and the branch on fn.
EventBody(buffer, pid, cpu, cpu_end, calls) ==
  LET ts_idx == Find(buffer, " ", SizeAdd(cpu_end, 2))
      ts_end == Find(buffer, ":", SizeAdd(ts_idx, 1))
      ts_str == SubstrTrim(buffer, SizeAdd(ts_idx, 1), ts_end)
      maybe_ts == StringToDouble(ts_str.str)
      fn_idx == Find(buffer, ":", SizeAdd(ts_end, 2))
      fn == SubstrTrim(buffer, SizeAdd(ts_end, 2), fn_idx)
      args_str == SubstrTrim(buffer, SizeAdd(fn_idx, 2), Len(buffer))
  IN IF ts_str.fault # "none"
       THEN {EventOutcome("", <<>>, ts_str.fault, calls)}
     ELSE IF ~maybe_ts.has_value
       THEN {EventOutcome("Could not convert ts", <<>>, "none", calls)}
     ELSE IF fn.fault # "none"
       THEN {EventOutcome("", <<>>, fn.fault, calls)}
     ELSE IF args_str.fault # "none"
       THEN {EventOutcome("", <<>>, args_str.fault, calls)}
     ELSE DispatchEvent(fn.str, ParseArgs(args_str.str), args_str.str,
                        ToNanos(maybe_ts), pid, cpu, calls)

\* ParseSingleSystraceEvent from the tgid on, once the pid is converted.
EventAfterPid(buffer, pid, has_tgid, tgid_idx, cpu_idx) ==
  LET created == <<TrackerCall("GetOrCreateThread", <<pid>>)>>
      tgid_end == Find(buffer, ")", SizeAdd(tgid_idx, 1))
      tgid_str == SubstrTrim(buffer, SizeAdd(tgid_idx, 1), tgid_end)
      tgid == StringToUInt32(tgid_str.str)
      calls == IF has_tgid /\ tgid.has_value
                 THEN Append(created,
                             TrackerCall("UpdateThread", <<pid, tgid.value>>))
               ELSE created
      cpu_end == Find(buffer, "]", SizeAdd(cpu_idx, 1))
      cpu_str == SubstrTrim(buffer, SizeAdd(cpu_idx, 1), cpu_end)
      maybe_cpu == StringToUInt32(cpu_str.str)
  IN IF has_tgid /\ tgid_str.fault # "none"
       THEN {EventOutcome("", <<>>, tgid_str.fault, created)}
     ELSE IF cpu_str.fault # "none"
       THEN {EventOutcome("", <<>>, cpu_str.fault, calls)}
     ELSE IF ~maybe_cpu.has_value
       THEN {EventOutcome("Could not convert cpu ", cpu_str.str, "none", calls)}
     ELSE EventBody(buffer, pid, maybe_cpu.value, cpu_end, calls)

\* The text ParseSingleSystraceEvent hands to the pid conversion: from
\* behind the '-' that ends the task name to pid_end, which is cpu_idx when
\* a tgid is seen and tgid_idx when none is.
PidStr(buffer) ==
  LET task == FindTask(buffer)
      task_idx == task[1] + task[2]
      tgid_idx == Find(buffer, "(", SizeAdd(task_idx, 1))
      cpu_idx == Find(buffer, "[", SizeAdd(task_idx, 1))
      has_tgid == tgid_idx # npos /\ tgid_idx < cpu_idx
      pid_end == IF has_tgid THEN cpu_idx ELSE tgid_idx
  IN [task_idx |-> task_idx, tgid_idx |-> tgid_idx, cpu_idx |-> cpu_idx,
      has_tgid |-> has_tgid, pid_end |-> pid_end,
      pid_str |-> IF cpu_idx = npos THEN [fault |-> "none", str |-> <<>>]
                  ELSE SubstrTrim(buffer, SizeAdd(task_idx, 1), pid_end)]

\* SystraceTraceParser::ParseSingleSystraceEvent(buffer): the outcomes the
\* call can have.
ParseSingleSystraceEvent(buffer) ==
  LET head == PidStr(buffer)
      maybe_pid == StringToUInt32(head.pid_str.str)
  IN IF head.cpu_idx = npos
       THEN {EventOutcome("Could not find [ in ", buffer, "none", <<>>)}
     ELSE IF head.pid_str.fault # "none"
       THEN {EventOutcome("", <<>>, head.pid_str.fault, <<>>)}
     ELSE IF ~maybe_pid.has_value
       THEN {EventOutcome("Could not convert pid ", head.pid_str.str, "none",
                          <<>>)}
     ELSE EventAfterPid(buffer, maybe_pid.value, head.has_tgid, head.tgid_idx,
                        head.cpu_idx)

----------------------------------------------------------------------------
(* SystraceTraceParser::Parse and the reader that hands it the bytes of a  *)
(* trace file chunk by chunk.                                              *)

\* Largest number of lines of a trace file, and largest size of a chunk
\* that is not the whole rest of the file.
MaxLines == 3

MaxChunk == 3

kSystraceStart ==
  <<"<", "s", "c", "r", "i", "p", "t", " ", "c", "l", "a", "s", "s", "=",
    "\"", "t", "r", "a", "c", "e", "-", "d", "a", "t", "a", "\"", " ", "t",
    "y", "p", "e", "=", "\"", "a", "p", "p", "l", "i", "c", "a", "t", "i",
    "o", "n", "/", "t", "e", "x", "t", "\"", ">">>

kScriptEnd == <<"<", "/", "s", "c", "r", "i", "p", "t", ">">>

\* The record of a call of ParseSingleSystraceEvent: the line it was given
\* and what it did.
EventRecord(buffer, outcome) ==
  [buffer |-> buffer, message |-> outcome.message, detail |-> outcome.detail,
   calls |-> outcome.calls]

\* The loop of Parse over the lines of partial_buf_ from start on: the
\* outcomes it can have, each with the state, the position start_it of the
\* first byte not consumed, the calls of ParseSingleSystraceEvent made and
\* the fault that ended the run, if any.
RECURSIVE ParseLoop(_, _, _, _)
ParseLoop(state, buf, start, made) ==
  LET line_it == Find(buf, "\n", start)
      buffer == SubSeq(buf, start + 1, line_it)
      here == [state_ |-> state, start_it |-> start, events |-> made,
               fault |-> "none"]
  IN IF line_it = npos THEN {here}
     ELSE IF state = "kHtmlBeforeSystrace"
       THEN ParseLoop(IF Contains(buffer, kSystraceStart)
                        THEN "kSystrace" ELSE state,
                      buf, line_it + 1, made)
     ELSE IF state = "kSystrace"
       THEN IF Contains(buffer, kScriptEnd)
              THEN {[here EXCEPT !.state_ = "kEndOfSystrace"]}
            ELSE IF ~StartsWith(buffer, <<"#">>)
              THEN UNION {IF o.fault # "none"
                            THEN {[here EXCEPT
                                     !.events = Append(made,
                                                       EventRecord(buffer, o)),
                                     !.fault = o.fault]}
                          ELSE ParseLoop(state, buf, line_it + 1,
                                         Append(made, EventRecord(buffer, o))) :
                            o \in ParseSingleSystraceEvent(buffer)}
            ELSE ParseLoop(state, buf, line_it + 1, made)
     ELSE ParseLoop(state, buf, line_it + 1, made)

\* Mutant: kBeforeParse is always left for kSystrace.
FirstState_AlwaysSystrace(buf) == {"kSystrace"}

\* The state Parse leaves kBeforeParse for: it reads partial_buf_[0], which
\* is past the end when no byte was given.
FirstState(buf) ==
  IF buf = <<>> THEN {"kHtmlBeforeSystrace", "kSystrace"}
  ELSE IF buf[1] = "<" THEN {"kHtmlBeforeSystrace"}
  ELSE {"kSystrace"}

\* Mutant: Parse clears partial_buf_ on every return, also when a line is
\* left unterminated.
Parse_ClearsPartial(state, partial, owned_buf) ==
  IF state = "kEndOfSystrace"
    THEN {[state_ |-> state, partial_buf_ |-> partial, events |-> <<>>,
           ret |-> "OK"]}
  ELSE LET buf == partial \o owned_buf
       IN UNION {{[state_ |-> l.state_,
                   partial_buf_ |-> <<>>,
                   events |-> l.events,
                   ret |-> IF l.fault # "none" THEN "fault" ELSE "OK"] :
                    l \in ParseLoop(first, buf, 0, <<>>)} :
                   first \in IF state = "kBeforeParse" THEN FirstState(buf)
                             ELSE {state}}

\* SystraceTraceParser::Parse(owned_buf, size) on the parser (state,
\* partial): the outcomes it can have, each with the parser it leaves, the
\* calls of ParseSingleSystraceEvent it made and what it returned ("fault"
\* when a fault ended the run).
Parse(state, partial, owned_buf) ==
  IF state = "kEndOfSystrace"
    THEN {[state_ |-> state, partial_buf_ |-> partial, events |-> <<>>,
           ret |-> "OK"]}
  ELSE LET buf == partial \o owned_buf
       IN UNION {{[state_ |-> l.state_,
                   partial_buf_ |->
                     IF l.fault # "none" THEN buf
                     ELSE IF l.state_ = "kEndOfSystrace" THEN <<>>
                     ELSE SubSeq(buf, l.start_it + 1, Len(buf)),
                   events |-> l.events,
                   ret |-> IF l.fault # "none" THEN "fault" ELSE "OK"] :
                    l \in ParseLoop(first, buf, 0, <<>>)} :
                   first \in IF state = "kBeforeParse" THEN FirstState(buf)
                             ELSE {state}}

\* The executor is not used while the parser runs.
ExecutorUnused ==
  /\ table = <<>>
  /\ col = [storage |-> <<>>, overlays |-> <<>>]
  /\ rm = <<>>
  /\ last = NoCall
  /\ prev = NoCall
  /\ matching = {}

\* The lines of the trace files: an HTML line, the line with the trace-data
\* script tag, a comment, an event line, the line that closes the script
\* and a line of text.
ParseLines ==
  {<<"<", "b", ">">>,
   kSystraceStart,
   <<"#", "c">>,
   <<"s", "h", "-", "1", "2", " ", "[", "0", "]", " ", "d", " ", "0", ".",
     "5", ":", " ", "p", "r", "i", "n", "t", ":", " ", "x">>,
   kScriptEnd,
   <<"t">>}

\* The trace files of up to n lines, each line ended by a newline.
RECURSIVE Streams(_)
Streams(n) ==
  IF n = 0 THEN {<<>>}
  ELSE LET shorter == Streams(n - 1)
       IN shorter \cup {l \o <<"\n">> \o s : l \in ParseLines, s \in shorter}

\* The sizes of the next chunk: up to MaxChunk bytes, or all that is left.
ChunkSizes(left) ==
  ({k \in 1 .. MaxChunk : k <= Len(left)} \cup {Len(left)}) \ {0}

InitParse ==
  /\ ExecutorUnused
  /\ state_ = "kBeforeParse"
  /\ partial_buf_ = <<>>
  /\ input \in Streams(MaxLines) \ {<<>>}
  /\ fed = <<>>
  /\ events = <<>>
  /\ ret = "none"

\* The reader gives Parse the next chunk of the file, which is not empty.
ParseCall ==
  /\ input # <<>>
  /\ ret # "fault"
  /\ \E size \in ChunkSizes(input) :
       \E res \in Parse(state_, partial_buf_, SubSeq(input, 1, size)) :
         /\ state_' = res.state_
         /\ partial_buf_' = res.partial_buf_
         /\ events' = events \o res.events
         /\ ret' = res.ret
         /\ fed' = fed \o SubSeq(input, 1, size)
         /\ input' = SubSeq(input, size + 1, Len(input))
  /\ UNCHANGED executor

NextParse == ParseCall

SpecParse == InitParse /\ [][NextParse]_vars

----------------------------------------------------------------------------
(* Parse on systrace text of one event line behind a comment line.         *)

\* An event line: task-pid, the tgid in parentheses when there is one, the
\* cpu, the flags, the timestamp and the event with its arguments.
EventLine(task, pid, tgid, tail) ==
  task \o <<"-">> \o pid \o <<" ", " ">>
    \o (IF tgid = <<>> THEN <<>> ELSE <<"(">> \o tgid \o <<")", " ">>)
    \o <<"[", "0", "0", "0", "]", " ", "d", ".", ".", "1", " ", "0", ".",
         "5", ":", " ">>
    \o tail

EventTasks == {<<"<", "i", "d", "l", "e", ">">>, <<"s", "h">>}

EventPids == {<<"0">>, <<"1", "2">>, <<"x">>}

\* The tgid of a line: none (the empty text), dashes or a number.
EventTgids == {<<>>, <<"-", "-", "-", "-", "-">>, <<"7">>}

\* cpu_idle events with both arguments, without state, with a state that is
\* no number and without cpu_id.
CpuIdleComplete == <<"c", "p", "u", "_", "i", "d", "l", "e", ":", " ", "s",
                     "t", "a", "t", "e", "=", "0", " ", "c", "p", "u", "_",
                     "i", "d", "=", "0">>

CpuIdleNoState == <<"c", "p", "u", "_", "i", "d", "l", "e", ":", " ", "c",
                    "p", "u", "_", "i", "d", "=", "0">>

CpuIdleBadState == <<"c", "p", "u", "_", "i", "d", "l", "e", ":", " ", "s",
                     "t", "a", "t", "e", "=", "x", " ", "c", "p", "u", "_",
                     "i", "d", "=", "0">>

CpuIdleNoCpu == <<"c", "p", "u", "_", "i", "d", "l", "e", ":", " ", "s", "t",
                  "a", "t", "e", "=", "1">>

EventTails ==
  {CpuIdleComplete, CpuIdleNoState, CpuIdleBadState, CpuIdleNoCpu,
   <<"p", "r", "i", "n", "t", ":", " ", "B", "|", "1", "|", "f", "(", "x",
     ")">>,
   <<"s", "c", "h", "e", "d", "_", "w", "a", "k", "e", "u", "p", ":", " ",
     "c", "o", "m", "m", "=", "s", "h", " ", "p", "i", "d", "=", "1", "2">>,
   <<"s", "c", "h", "e", "d", "_", "s", "w", "i", "t", "c", "h", ":", " ",
     "p", "r", "e", "v", "_", "p", "i", "d", "=", "1", " ", "p", "r", "e",
     "v", "_", "p", "r", "i", "o", "=", "2", " ", "p", "r", "e", "v", "_",
     "s", "t", "a", "t", "e", "=", "S", " ", "n", "e", "x", "t", "_", "p",
     "i", "d", "=", "3", " ", "n", "e", "x", "t", "_", "p", "r", "i", "o",
     "=", "4">>,
   <<"t", "a", "s", "k", "_", "n", "e", "w", "t", "a", "s", "k", ":", " ",
     "p", "i", "d", "=", "1">>}

EventLines ==
  {EventLine(task, pid, tgid, tail) :
     task \in EventTasks, pid \in EventPids, tgid \in EventTgids,
     tail \in EventTails}

InitEvent ==
  /\ ExecutorUnused
  /\ state_ = "kBeforeParse"
  /\ partial_buf_ = <<>>
  /\ input \in {<<"#", "\n">> \o l \o <<"\n">> : l \in EventLines}
  /\ fed = <<>>
  /\ events = <<>>
  /\ ret = "none"

SpecEvent == InitEvent /\ [][NextParse]_vars

----------------------------------------------------------------------------
(* Properties of FilterColumn, checked under Spec.                         *)

\* The rows of rm_in, in order, that a predicate on rows holds of.
RowsWhere(rm_in, Holds(_)) == SelectSeq(rm_in, Holds)

\* C1 (overlay identity): after FilterColumn(c, col, R) on a column with no
\* overlay and a non-empty R, the row map is exactly the rows r of R whose
\* storage element storage[r] satisfies (op, value), on either strategy.
C1_OverlayIdentity ==
  (last.called = "FilterColumn" /\ col.overlays = <<>> /\ last.rm_in # <<>>)
    => /\ last.fault = "none"
       /\ last.algorithm \in {"indexed", "bounded"}
       /\ rm = RowsWhere(last.rm_in,
                 LAMBDA r : Compare(last.c.op, col.storage[r + 1], last.c.value))

\* C1 witness: the indexed strategy ran on a column with no overlay and kept
\* some rows of R and dropped others.
C1_Witness ==
  /\ last.called = "FilterColumn"
  /\ col.overlays = <<>>
  /\ last.algorithm = "indexed"
  /\ rm # <<>>
  /\ rm # last.rm_in

\* The rows of rm_in a null-overlay column with mask M keeps for constraint c.
NullOverlayExpected(c, M, storage, rm_in) ==
  RowsWhere(rm_in,
    LAMBDA r :
      CASE c.op = "kIsNull" -> ~M[r + 1]
        [] c.op = "kIsNotNull" -> M[r + 1]
        [] OTHER ->
             /\ M[r + 1]
             /\ Compare(c.op,
                        storage[Cardinality({q \in 0 .. (r - 1) : M[q + 1]}) + 1],
                        c.value))

\* C2 (null-overlay semantics): after FilterColumn(c, col, R) on a column of
\* one null overlay with mask M, the row map is the null rows of R for IS
\* NULL, the non-null rows of R for IS NOT NULL, and for a comparison the
\* non-null rows r of R whose storage element, at the number of non-null
\* rows below r, satisfies (op, value); for every R and on both strategies.
C2_NullOverlaySemantics ==
  (last.called = "FilterColumn" /\ Len(col.overlays) = 1)
    => /\ last.fault = "none"
       /\ rm = NullOverlayExpected(last.c, col.overlays[1].non_null,
                                   col.storage, last.rm_in)

\* C2 witness: the indexed strategy ran a comparison on a row map that holds
\* a null row and a non-null row, and the non-null row matched at a storage
\* index other than its row.
C2_Witness ==
  /\ last.called = "FilterColumn"
  /\ Len(col.overlays) = 1
  /\ last.algorithm = "indexed"
  /\ last.c.op = "kEq"
  /\ \E i \in 1 .. Len(last.rm_in) : ~col.overlays[1].non_null[last.rm_in[i] + 1]
  /\ \E i \in 1 .. Len(rm) :
       CountSetBitsUntil(col.overlays[1].non_null, rm[i]) # rm[i]

\* C3 (refinement): the row map FilterColumn leaves is a subset of the row
\* map it was given, on both strategies.
C3_Refinement ==
  last.called = "FilterColumn" => RowSet(rm) \subseteq RowSet(last.rm_in)

\* C3 witness: the bounded strategy ran on a row map with a gap whose missing
\* row satisfies the constraint, and the row map shrank.
C3_Witness ==
  /\ last.called = "FilterColumn"
  /\ last.algorithm = "bounded"
  /\ col.overlays = <<>>
  /\ last.rm_in = <<0, 2, 3>>
  /\ rm = <<0, 3>>
  /\ Compare(last.c.op, col.storage[2], last.c.value)

\* C7 (empty-in): FilterColumn on an empty row map returns at once: the row
\* map stays empty, neither algorithm runs and no row map, overlay or
\* storage operation is called.
C7_EmptyIn ==
  (last.called = "FilterColumn" /\ last.rm_in = <<>>)
    => /\ rm = <<>>
       /\ last.algorithm = "none"
       /\ last.log = <<>>
       /\ last.fault = "none"

\* C7 witness: FilterColumn was called on an empty row map over a column
\* with a null overlay.
C7_Witness ==
  /\ last.called = "FilterColumn"
  /\ last.rm_in = <<>>
  /\ Len(col.overlays) = 1
  /\ last.c.op = "kIsNull"

----------------------------------------------------------------------------
(* Properties of the two algorithms, checked under SpecAlgos.              *)

C6_IndexedAccounting ==
  last.called = "IndexedColumnFilter"
    => /\ last.fault = "none"
       /\ Len(last.rm_in) = last.valid_size + last.count_removed
       /\ last.valid_size = Len(rm)

\* C6 witness: no row of a three-row R matches, over a null overlay that
\* decides one row alone: the result is empty and count_removed is 3.
C6_Witness ==
  /\ last.called = "IndexedColumnFilter"
  /\ Len(col.overlays) = 1
  /\ Len(last.rm_in) = 3
  /\ last.c.op = "kGt"
  /\ \E i \in 1 .. 3 : ~col.overlays[1].non_null[last.rm_in[i] + 1]
  /\ \E i \in 1 .. 3 : col.overlays[1].non_null[last.rm_in[i] + 1]
  /\ rm = <<>>
  /\ last.count_removed = 3

----------------------------------------------------------------------------
(* Properties of consecutive FilterColumn calls, checked under SpecSeq.    *)

\* C8 (intersection-sequence law): when FilterColumn is called with c1 on a
\* column and a row map R and then with c2 on a column and what the first
\* call left, the row map left is the one that the calls with c2 on R and
\* then c1, each on its own column, leave.
C8_IntersectionSequence ==
  (prev.called = "FilterColumn" /\ last.called = "FilterColumn")
    => rm = FilterColumn(prev.c, table[1],
                         FilterColumn(last.c, col, prev.rm_in).rm).rm

\* C8 witness: c1 ran bounded on the full range and left a sparse row map,
\* on which c2 ran indexed on another column and dropped a row; in the
\* other order c2 runs bounded on the full range.
C8_Witness ==
  /\ prev.called = "FilterColumn"
  /\ last.called = "FilterColumn"
  /\ table[1] # col
  /\ prev.algorithm = "bounded"
  /\ last.algorithm = "indexed"
  /\ FilterColumn(last.c, col, prev.rm_in).algorithm = "bounded"
  /\ rm # <<>>
  /\ rm # last.rm_in

----------------------------------------------------------------------------
(* Properties of the choice of the algorithm, checked under SpecStrategy.  *)

\* The calls only the bounded algorithm and only the indexed one make.
BoundedCalls ==
  {"MapToStorageRange", "LinearSearch", "MapToTableBitVector", "Intersect"}

IndexedCalls ==
  {"IterateRows", "IsStorageLookupRequired", "MapToStorageIndexVector",
   "IndexSearch"}

CallsOf(log) == {log[i].fn : i \in 1 .. Len(log)}

\* C5 (strategy selection): a call of FilterColumn on a non-empty row map
\* runs the indexed algorithm if and only if the row map has fewer than 1024
\* rows and its size is less than half of range_size = last - first (a
\* range_size of zero gives an infinite quotient), runs the bounded
\* algorithm otherwise, and makes the calls of that algorithm only.
C5_StrategySelection ==
  (last.called = "FilterColumn" /\ last.rm_in # <<>>)
    => LET size == Len(last.rm_in)
           range_size == last.rm_in[size] - last.rm_in[1]
           sparse_and_small ==
             size < 1024 /\ range_size # 0 /\ 2 * size < range_size
       IN /\ last.algorithm \in {"indexed", "bounded"}
          /\ (last.algorithm = "indexed") <=> sparse_and_small
          /\ last.algorithm = "indexed"
               => /\ "IterateRows" \in CallsOf(last.log)
                  /\ CallsOf(last.log) \cap BoundedCalls = {}
          /\ last.algorithm = "bounded"
               => /\ "LinearSearch" \in CallsOf(last.log)
                  /\ CallsOf(last.log) \cap IndexedCalls = {}

\* C5 witness: a row map of exactly 1024 rows, three rows apart, was
\* filtered by the bounded algorithm, which dropped rows and kept others.
C5_Witness ==
  /\ last.called = "FilterColumn"
  /\ Len(last.rm_in) = 1024
  /\ last.rm_in[1024] - last.rm_in[1] > 2 * 1024
  /\ last.algorithm = "bounded"
  /\ rm # <<>>
  /\ rm # last.rm_in

----------------------------------------------------------------------------
(* Properties of FilterLegacy, checked under SpecLegacy.                   *)

\* C9 (conjunction and agreement): after any number of constraints, the row
\* map of FilterLegacy holds exactly the rows of [0, row_count) whose cells
\* satisfy every constraint processed, and a constraint FilterColumn
\* evaluated left the rows col.FilterInto leaves on the same row map.
C9_ConjunctionAgreement ==
  /\ RowSet(rm) = matching
  /\ last.called = "FilterColumn"
       => RowSet(rm) = RowSet(FilterInto(table[last.c.col_idx + 1], last.c,
                                         last.rm_in))

\* C9 witness: an earlier constraint had dropped a row, and FilterColumn
\* evaluated a constraint on the second column, which is nullable, and
\* dropped the row that was left.
C9_Witness ==
  /\ last.called = "FilterColumn"
  /\ last.c.col_idx = 1
  /\ col.overlays # <<>>
  /\ Len(last.rm_in) = LegacyRows - 1
  /\ rm # last.rm_in

\* The condition under which a constraint is passed to FilterColumn: the
\* column's type is not string, dummy or id, the column is neither sorted
\* nor dense, the value's type is the column's type and the overlay row map
\* has the size of the storage.
PipelineEligible(column, c) ==
  /\ column.col_type \notin {"kString", "kDummy", "kId"}
  /\ ~column.is_sorted
  /\ ~column.is_dense
  /\ c.value_type = column.type
  /\ Len(column.overlay_rm) = column.storage_base.size

\* C10 (legacy-bridge routing): every constraint FilterLegacy processes goes
\* to exactly one of FilterColumn and col.FilterInto, to FilterColumn if and
\* only if the column and the value are eligible, and no SimpleColumn is
\* built for a constraint that goes to col.FilterInto.
C10_Routing ==
  /\ last.called \in {"none", "FilterColumn", "FilterInto"}
  /\ last.called # "none"
       => /\ (last.called = "FilterColumn")
               <=> PipelineEligible(table[last.c.col_idx + 1], last.c)
          /\ (last.called = "FilterInto") <=> (col = NoColumn)

\* C10 witness: a constraint on an integer column that is neither sorted nor
\* dense, with a value of the column's type, went to col.FilterInto because
\* the column has a row selector.
C10_Witness ==
  /\ last.called = "FilterInto"
  /\ col = NoColumn
  /\ table[last.c.col_idx + 1].col_type = "kInt64"
  /\ ~table[last.c.col_idx + 1].is_sorted
  /\ ~table[last.c.col_idx + 1].is_dense
  /\ last.c.value_type = "kLong"
  /\ Len(table[last.c.col_idx + 1].overlay_rm)
       # table[last.c.col_idx + 1].storage_base.size
  /\ rm # <<>>
  /\ rm # last.rm_in

----------------------------------------------------------------------------
(* Properties of the scenarios, checked under SpecScenario.                *)

\* C11 (scenario S2, as the code behaves): on the five-element storage a
\* call of FilterColumn on the row map {0, 3} and one on {0, 4} both run the
\* bounded algorithm and none of the calls of the indexed one (2 / 3 and
\* 2 / 4 are not below 0.5), and with the constraint (>, 15) the row map
\* {0, 3} is left as {3}.
C11_ScenarioS2Bounded ==
  (last.called = "FilterColumn" /\ last.rm_in \in {<<0, 3>>, <<0, 4>>})
    => /\ last.algorithm = "bounded"
       /\ "LinearSearch" \in CallsOf(last.log)
       /\ CallsOf(last.log) \cap IndexedCalls = {}
       /\ (last.rm_in = <<0, 3>> /\ last.c = [op |-> "kGt", value |-> 15])
            => rm = <<3>>

\* C11 as stated: the row map {0, 3} selects the indexed algorithm and
\* {0, 4} the bounded one.
C11_ScenarioS2AsStated ==
  last.called = "FilterColumn"
    => /\ last.rm_in = <<0, 3>> => last.algorithm = "indexed"
       /\ last.rm_in = <<0, 4>> => last.algorithm = "bounded"

\* C11 witness: the call of scenario S2 on {0, 3} with (>, 15) ran the
\* bounded algorithm and left {3}.
C11_Witness ==
  /\ last.called = "FilterColumn"
  /\ last.rm_in = <<0, 3>>
  /\ last.c = [op |-> "kGt", value |-> 15]
  /\ last.algorithm = "bounded"
  /\ rm = <<3>>

----------------------------------------------------------------------------
(* Properties of the steps of the two algorithms, checked under SpecSteps. *)

\* C12 (frame condition): no step of a call changes the column (its storage
\* and the state of its overlays) or the constraint of the running call,
\* and the row map changes only in the step in which the algorithm has
\* returned and FilterColumn writes it.
C12_Frame ==
  [][/\ col' = col
     /\ last.called # "none" => last'.c = last.c
     /\ rm' # rm => (last.pc = "return" /\ last'.pc = "done")]_vars

\* C12 witness: a call on a column with overlays has returned and the row
\* map was changed.
C12_Witness ==
  /\ last.called \in {"BoundedColumnFilter", "IndexedColumnFilter"}
  /\ last.pc = "done"
  /\ col.overlays # <<>>
  /\ rm # last.rm_in
  /\ rm # <<>>

\* C13 (overlay traversal order): when BoundedColumnFilter has run over a
\* stack of k overlays, its calls were MapToStorageRange on o[0], ...,
\* o[k-1], then LinearSearch once, then MapToTableBitVector on o[k-1], ...,
\* o[0]; the first call was given [R.first, R.last + 1) and every other call
\* the result of the call before it.  When IndexedColumnFilter has run, it
\* asked o[0], ..., o[k-1] in that order and probed the storage after them.
C13_TraversalOrder ==
  LET k == Len(col.overlays)
      t == last.trace
  IN /\ (last.called = "BoundedColumnFilter" /\ last.pc \in {"return", "done"})
          => /\ Len(t) = 2 * k + 1
             /\ \A j \in 1 .. k :
                  /\ t[j].fn = "MapToStorageRange" /\ t[j].ov = j - 1
                  /\ t[k + 1 + j].fn = "MapToTableBitVector"
                  /\ t[k + 1 + j].ov = k - j
             /\ t[k + 1].fn = "LinearSearch" /\ t[k + 1].ov = -1
             /\ t[1].arg = [start |-> last.rm_in[1],
                            end |-> last.rm_in[Len(last.rm_in)] + 1]
             /\ \A j \in 2 .. (2 * k + 1) : t[j].arg = t[j - 1].out
             /\ [j \in 1 .. Len(t) |-> Call(t[j].fn, t[j].ov)]
                  = SubSeq(BoundedColumnFilter(last.c, col, last.rm_in).log,
                           3, 2 * k + 3)
     /\ (last.called = "IndexedColumnFilter" /\ last.pc \in {"return", "done"})
          => /\ Len(t) = k + 1
             /\ \A j \in 1 .. k :
                  t[j].fn = "IsStorageLookupRequired" /\ t[j].ov = j - 1
             /\ t[k + 1].fn = "IndexSearch" /\ t[k + 1].ov = -1

\* C13 witness: BoundedColumnFilter has run over a stack of two overlays,
\* both of which narrowed the range, and rows were found and rows dropped.
C13_Witness ==
  /\ last.called = "BoundedColumnFilter"
  /\ last.pc = "done"
  /\ Len(col.overlays) = 2
  /\ last.trace[1].out # last.trace[1].arg
  /\ last.trace[2].out # last.trace[2].arg
  /\ rm # <<>>
  /\ rm # last.rm_in

\* The rows of R a stack of NullOverlays decides without the storage, and
\* keeps: under kIsNull the rows null at the outermost overlay, under
\* kIsNotNull the others, under a comparison none.
RowsKeptByOverlays(overlays, op, R) ==
  IF overlays = <<>> THEN <<>>
  ELSE SelectSeq(R, LAMBDA r :
                   \/ op = "kIsNull" /\ ~overlays[1].non_null[r + 1]
                   \/ op = "kIsNotNull" /\ overlays[1].non_null[r + 1])

\* C14 (valid holds table rows): at every step of IndexedColumnFilter, valid
\* holds rows of R only; once the overlay loop has run, and until the
\* storage step, valid is the list of the rows of R the overlays decided
\* alone and kept, as table rows, whatever storage indices they map to.
C14_ValidIsTableSpace ==
  last.called = "IndexedColumnFilter"
    => /\ \A i \in 1 .. Len(last.st.valid) :
            last.st.valid[i] \in RowSet(last.rm_in)
       /\ (last.pc = "search" \/ (last.pc = "forward" /\ last.k > 0))
            => last.st.valid = RowsKeptByOverlays(col.overlays, last.c.op,
                                                  last.rm_in)

\* C14 witness: the overlay loop has run and valid holds a row whose storage
\* index at the outermost overlay differs from its table row.
C14_Witness ==
  /\ last.called = "IndexedColumnFilter"
  /\ last.pc = "search"
  /\ col.overlays # <<>>
  /\ \E i \in 1 .. Len(last.st.valid) :
       CountSetBitsUntil(col.overlays[1].non_null, last.st.valid[i])
         # last.st.valid[i]

\* The index of table row r after the outermost j overlays of a stack of
\* NullOverlays: at each overlay, the number of non-null rows before it.
RECURSIVE MapThrough(_, _, _)
MapThrough(overlays, j, r) ==
  IF j = 0 THEN r
  ELSE CountSetBitsUntil(overlays[j].non_null, MapThrough(overlays, j - 1, r))

\* The pairs <<current, global>> of a helper, and the pairs among them whose
\* position has its bit equal to want, in their order.
Pairs(h) == [i \in 1 .. Len(h.current) |-> <<h.current[i], h.global[i]>>]

PairsAt(h, bv, want) ==
  LET positions == {i \in 1 .. Len(h.global) : bv[i] = want}
  IN SelectSeq(Pairs(h),
               LAMBDA p : \E i \in positions : h.global[i] = p[2])

\* C15 (pairing invariant): at every point of IndexedColumnFilter current
\* and global have the same length, global holds rows of R in increasing
\* order and current[i] is global[i] mapped through the overlays processed
\* so far; the Partition and the KeepAtSet of the next step split and filter
\* the pairs as pairs, in their order.
C15_Pairing ==
  last.called = "IndexedColumnFilter"
    => LET h == last.st.to_filter
           op == FilterOpToOverlayOp(last.c.op)
       IN /\ Len(h.current) = Len(h.global)
          /\ \A i \in 1 .. Len(h.global) :
               /\ h.global[i] \in RowSet(last.rm_in)
               /\ h.current[i] = MapThrough(col.overlays, last.k, h.global[i])
          /\ \A i \in 1 .. (Len(h.global) - 1) : h.global[i] < h.global[i + 1]
          /\ last.pc = "forward"
               => LET overlay == col.overlays[last.k + 1]
                      partition == IsStorageLookupRequired(overlay, op, h.current)
                      parts == Partition(h, partition)
                      valid_bv == OverlayIndexSearch(overlay, op, parts[2].current)
                  IN /\ Pairs(parts[1]) = PairsAt(h, partition, TRUE)
                     /\ Pairs(parts[2]) = PairsAt(h, partition, FALSE)
                     /\ Pairs(KeepAtSet(parts[2], valid_bv).helper)
                          = PairsAt(parts[2], valid_bv, TRUE)
          /\ last.pc = "search"
               => LET matched == StorageIndexSearch(col.storage, last.c.op,
                                                    last.c.value, h.current)
                  IN Pairs(KeepAtSet(h, matched).helper)
                       = PairsAt(h, matched, TRUE)

\* C15 witness: the overlay loop has split the three rows of R, two pairs
\* are left for the storage and their current differs from their global.
C15_Witness ==
  /\ last.called = "IndexedColumnFilter"
  /\ last.pc = "search"
  /\ Len(last.rm_in) = 3
  /\ Len(last.st.to_filter.global) = 2
  /\ last.st.to_filter.current # last.st.to_filter.global

\* C16 (sorted, distinct result): at every step of IndexedColumnFilter no
\* row is twice in valid; when the call has returned without a failed check,
\* the row map is strictly increasing, holds rows of R (so rows below the
\* row count) and is the sorted valid list, the one the one-shot
\* IndexedColumnFilter returns.
C16_SortedDistinct ==
  last.called = "IndexedColumnFilter"
    => /\ \A i, j \in 1 .. Len(last.st.valid) :
            i # j => last.st.valid[i] # last.st.valid[j]
       /\ (last.pc = "done" /\ last.st.fault = "none")
            => /\ \A i \in 1 .. (Len(rm) - 1) : rm[i] < rm[i + 1]
               /\ RowSet(rm) \subseteq RowSet(last.rm_in)
               /\ RowSet(rm) \subseteq 0 .. (StepRows - 1)
               /\ RowSet(rm) = RowSet(last.st.valid)
               /\ Len(rm) = Len(last.st.valid)
               /\ rm = IndexedColumnFilter(last.c, col, last.rm_in).rm

\* C16 witness: IndexedColumnFilter has returned two rows, one row of R was
\* removed, under a stack of two overlays.
C16_Witness ==
  /\ last.called = "IndexedColumnFilter"
  /\ last.pc = "done"
  /\ Len(col.overlays) = 2
  /\ Len(last.rm_in) = 3
  /\ Len(rm) = 2
  /\ last.st.count_removed = 1

\* Whether table row r has its IsStorageLookupRequired bit set at each of the
\* outermost j overlays, each asked about the row's index in its own space.
RECURSIVE RowReaches(_, _, _, _)
RowReaches(overlays, op, j, r) ==
  IF j = 0 THEN TRUE
  ELSE /\ RowReaches(overlays, op, j - 1, r)
       /\ IsStorageLookupRequired(overlays[j], op,
                                  <<MapThrough(overlays, j - 1, r)>>)[1]

\* The rows of R that reach below the outermost j overlays, in order, and
\* their indices there.
RowsReaching(overlays, op, j, R) ==
  SelectSeq(R, LAMBDA r : RowReaches(overlays, op, j, r))

IndicesReaching(overlays, op, j, R) ==
  LET rows == RowsReaching(overlays, op, j, R)
  IN [i \in 1 .. Len(rows) |-> MapThrough(overlays, j, rows[i])]

\* C17 (short-circuit of the indexed algorithm): after k iterations the
\* helper holds exactly the rows of R whose bit was set at each of the k
\* overlays; overlay j is asked only about the rows whose bit was set at all
\* overlays before it; the storage IndexSearch is called exactly once, as the
\* last call, with the storage indices of exactly the rows whose bit was set
\* at every overlay, each once; under IS NULL and IS NOT NULL with an overlay
\* it is called with no index.
C17_ShortCircuit ==
  last.called = "IndexedColumnFilter"
    => LET op == FilterOpToOverlayOp(last.c.op)
           n == Len(col.overlays)
           searches == {i \in 1 .. Len(last.trace) :
                          last.trace[i].fn = "IndexSearch"}
           logged == {i \in 1 .. Len(last.st.log) :
                        last.st.log[i] = Call("IndexSearch", -1)}
       IN /\ last.pc \in {"forward", "search"}
              => /\ last.st.to_filter.global
                      = RowsReaching(col.overlays, op, last.k, last.rm_in)
                 /\ last.st.to_filter.current
                      = IndicesReaching(col.overlays, op, last.k, last.rm_in)
                 /\ searches = {}
                 /\ logged = {}
          /\ \A j \in 1 .. Len(last.trace) :
               last.trace[j].fn = "IsStorageLookupRequired"
                 => last.trace[j].arg
                      = IndicesReaching(col.overlays, op, j - 1, last.rm_in)
          /\ last.pc \in {"return", "done"}
              => /\ searches = {n + 1}
                 /\ Len(last.trace) = n + 1
                 /\ Cardinality(logged) = 1
                 /\ last.trace[n + 1].arg
                      = IndicesReaching(col.overlays, op, n, last.rm_in)
                 /\ Len(last.trace[n + 1].arg) <= Len(last.rm_in)
                 /\ (n > 0 /\ op # "kOther") => last.trace[n + 1].arg = <<>>

\* C17 witness: under two overlays and a comparison, of three rows of R one
\* is null at the first overlay, one at the second, and one index is given
\* to the storage.
C17_Witness ==
  /\ last.called = "IndexedColumnFilter"
  /\ last.pc = "done"
  /\ Len(col.overlays) = 2
  /\ Len(last.rm_in) = 3
  /\ Len(last.trace) = 3
  /\ Len(last.trace[2].arg) = 2
  /\ Len(last.trace[3].arg) = 1

\* Whether the iteration the frame is about to run has a partition with
\* every bit set (an empty helper included).
AllBitsSet(f) ==
  /\ f.called = "IndexedColumnFilter"
  /\ f.pc = "forward"
  /\ LET partition ==
           IsStorageLookupRequired(col.overlays[f.k + 1],
                                   FilterOpToOverlayOp(f.c.op),
                                   f.st.to_filter.current)
     IN CountSetBits(partition) = Len(partition)

\* C18 (fast path): an iteration whose partition has every bit set logs no
\* IndexSearch, leaves valid, count_removed and global as they were, and
\* rewrites current through MapToStorageIndexVector; the helper, valid and
\* count_removed it leaves are those the slow path gives on the same input.
C18_FastPath ==
  [][(AllBitsSet(last) /\ last'.called = last.called /\ last'.k = last.k + 1)
       => LET overlay == col.overlays[last.k + 1]
              op == FilterOpToOverlayOp(last.c.op)
              partition ==
                IsStorageLookupRequired(overlay, op,
                                        last.st.to_filter.current)
              slow == IndexedSlowPath(overlay, last.k + 1, op, last.st,
                                      partition)
          IN /\ last'.st.log
                  = last.st.log
                      \o <<Call("IsStorageLookupRequired", last.k),
                           Call("MapToStorageIndexVector", last.k)>>
             /\ last'.st.valid = last.st.valid
             /\ last'.st.count_removed = last.st.count_removed
             /\ last'.st.to_filter.global = last.st.to_filter.global
             /\ last'.st.to_filter.current
                  = MapToStorageIndexVector(overlay,
                                            last.st.to_filter.current)
             /\ last'.st.fault = "none"
             /\ last'.st.to_filter = slow.to_filter
             /\ last'.st.valid = slow.valid
             /\ last'.st.count_removed = slow.count_removed
             /\ last'.st.fault = slow.fault]_vars

\* C18 witness: the first overlay's iteration took the fast path on two
\* rows and rewrote current to indices that differ from the rows.
C18_Witness ==
  /\ last.called = "IndexedColumnFilter"
  /\ last.k = 1
  /\ last.st.log = <<Call("IterateRows", -1),
                     Call("IsStorageLookupRequired", 0),
                     Call("MapToStorageIndexVector", 0)>>
  /\ Len(last.st.to_filter.global) = 2
  /\ last.st.to_filter.current # last.st.to_filter.global

\* Whether the bounded call of the frame has returned after some overlay
\* mapped its range to an empty one.
EmptyRangeReturned(f) ==
  /\ f.called = "BoundedColumnFilter"
  /\ f.pc \in {"return", "done"}
  /\ \E j \in 1 .. Len(col.overlays) :
       /\ f.trace[j].fn = "MapToStorageRange"
       /\ f.trace[j].out.start = f.trace[j].out.end

\* What holds of every bounded call on an empty range whatever the op:
\* LinearSearch was called once, on an empty range, and returned a bit vector
\* of the storage's size with no bit set; every overlay's
\* MapToTableBitVector was called after it.
EmptyRangeCalls(f) ==
  LET n == Len(col.overlays)
  IN /\ Len(f.trace) = 2 * n + 1
     /\ f.trace[n + 1].fn = "LinearSearch"
     /\ f.trace[n + 1].arg.start = f.trace[n + 1].arg.end
     /\ Len(f.trace[n + 1].out) = Len(col.storage)
     /\ CountSetBits(f.trace[n + 1].out) = 0
     /\ \A j \in 1 .. n : f.trace[n + 1 + j].fn = "MapToTableBitVector"
     /\ Len(f.bv) = StepRows

\* The rows of the table that are null at some overlay of the stack.
NullInStack(overlays) ==
  {r \in 0 .. (StepRows - 1) :
     ~RowReaches(overlays, "kOther", Len(overlays), r)}

\* C19 (bounded filter on an empty storage range): when some overlay maps
\* the range to an empty one, LinearSearch and every MapToTableBitVector are
\* still called and LinearSearch returns no bit; the row map returned has no
\* row for every op but IS NULL, and for IS NULL it holds exactly the rows
\* that are null at some overlay.
C19_EmptyRange ==
  EmptyRangeReturned(last)
    => /\ EmptyRangeCalls(last)
       /\ last.c.op # "kIsNull" => RowMapOfBitVector(last.bv) = <<>>
       /\ last.c.op = "kIsNull"
            => RowSet(RowMapOfBitVector(last.bv)) = NullInStack(col.overlays)

\* C19 as stated: on an empty storage range the returned row map has no row
\* for every op.
C19_EmptyRangeAsStated ==
  EmptyRangeReturned(last)
    => /\ EmptyRangeCalls(last)
       /\ RowMapOfBitVector(last.bv) = <<>>

\* C19 witness: under two overlays the first maps the range of two rows to
\* a non-empty range and the second to an empty one, the op is IS NULL and
\* the call has returned both rows.
C19_Witness ==
  /\ EmptyRangeReturned(last)
  /\ last.pc = "done"
  /\ Len(col.overlays) = 2
  /\ last.trace[1].out.start # last.trace[1].out.end
  /\ last.c.op = "kIsNull"
  /\ Len(last.rm_in) = 2
  /\ rm = last.rm_in

----------------------------------------------------------------------------
(* Sequential application in FilterLegacy, checked under SpecLegacy.       *)

\* C20 (sequential application): FilterLegacy starts from the row map
\* [0, row_count); every constraint is applied to the row map the previous
\* one left, leaves a subset of it within [0, row_count), and a constraint
\* that goes to FilterColumn on an empty row map leaves it empty without
\* running an algorithm.
C20_Sequential ==
  /\ rm = RowMapOfRange(0, LegacyRows)
  /\ [][/\ last'.rm_in = rm
        /\ RowSet(rm') \subseteq RowSet(rm)
        /\ RowSet(rm') \subseteq 0 .. (LegacyRows - 1)
        /\ \A i \in 1 .. (Len(rm') - 1) : rm'[i] < rm'[i + 1]
        /\ (rm = <<>> /\ last'.called = "FilterColumn")
             => /\ rm' = <<>>
                /\ last'.algorithm = "none"
                /\ last'.log = <<>>]_vars

\* C20 witness: an earlier constraint left the row map empty and the next
\* one, which went to FilterColumn on a nullable column, left it empty.
C20_Witness ==
  /\ last.called = "FilterColumn"
  /\ col.overlays # <<>>
  /\ last.rm_in = <<>>
  /\ rm = <<>>
  /\ last.algorithm = "none"

\* C21 (binding construction): the SimpleColumn FilterLegacy hands to
\* FilterColumn has the column's storage and an overlay stack that is empty
\* for a column that is not nullable and holds the one NullOverlay of the
\* column's null mask for a nullable one; the stack is no longer than
\* kMaxOverlayCount, and every constraint on that column that goes to
\* FilterColumn is given the same storage and overlay.
C21_Binding ==
  last.called = "FilterColumn"
    => LET column == table[last.c.col_idx + 1]
       IN /\ col.storage = column.storage_base.data
          /\ ~column.is_nullable => col.overlays = <<>>
          /\ column.is_nullable
               => col.overlays = <<[non_null |-> column.storage_base.bv]>>
          /\ Len(col.overlays) <= 1
          /\ Len(col.overlays) <= kMaxOverlayCount
          /\ \A c \in LegacyConstraints(table) :
               (c.col_idx = last.c.col_idx /\ ~RoutedToLegacy(table, c))
                 => /\ SimpleColumnOf(table, c) = col
                    /\ Storages(table)[c.col_idx + 1].data = col.storage

\* C21 witness: FilterColumn was given a nullable column with a null row
\* (one NullOverlay), in a table whose other column is an integer column
\* that is not nullable.
C21_Witness ==
  /\ last.called = "FilterColumn"
  /\ table[last.c.col_idx + 1].is_nullable
  /\ Len(col.overlays) = 1
  /\ CountSetBits(col.overlays[1].non_null) < LegacyRows
  /\ \E i \in 1 .. Len(table) :
       /\ i # last.c.col_idx + 1
       /\ table[i].col_type = "kInt64"
       /\ ~table[i].is_nullable
       /\ ~RoutedToLegacy(table, [last.c EXCEPT !.col_idx = i - 1])

----------------------------------------------------------------------------
(* Properties of ParseSingleSystraceEvent, checked under SpecEvent.        *)

\* The event lines with a pid of digits and the given tail.
LinesWithTail(tail) ==
  {EventLine(task, pid, tgid, tail) :
     task \in EventTasks, pid \in {p \in EventPids : StringToUInt32(p).has_value},
     tgid \in EventTgids}

\* The cpu_idle lines whose state argument is missing or is no number.
CpuIdleWithoutState ==
  LinesWithTail(CpuIdleNoState) \cup LinesWithTail(CpuIdleBadState)

\* C22 as stated (cpu_idle error handling): every call of
\* ParseSingleSystraceEvent on a cpu_idle line whose state argument is
\* missing or is no number returns 'Could not convert state' and pushes no
\* counter.
C22_StateErrorAsStated ==
  \A i \in 1 .. Len(events) :
    events[i].buffer \in CpuIdleWithoutState
      => /\ events[i].message = "Could not convert state"
         /\ \A j \in 1 .. Len(events[i].calls) :
              events[i].calls[j].fn # "PushCounter"

\* C22, what the code does: no call of ParseSingleSystraceEvent returns
\* 'Could not convert state'; on a cpu_idle line without a state it returns
\* 'Could not convert pid', and from the pid on (had the pid been converted)
\* its outcomes are the failed check of Optional::value and a counter pushed
\* with a value that was never parsed, never the state error.
C22_StateNeverReported ==
  \A i \in 1 .. Len(events) :
    /\ events[i].message # "Could not convert state"
    /\ events[i].buffer \in CpuIdleWithoutState
         => LET head == PidStr(events[i].buffer)
                rest == EventAfterPid(events[i].buffer, 0, head.has_tgid,
                                      head.tgid_idx, head.cpu_idx)
            IN /\ events[i].message = "Could not convert pid "
               /\ events[i].calls = <<>>
               /\ \E o \in rest : o.fault = "check"
               /\ \A o \in rest :
                    /\ o.message # "Could not convert state"
                    /\ o.fault = "none"
                         => /\ o.message = "OK"
                            /\ o.calls[Len(o.calls)].fn = "PushCounter"
                            /\ ~o.calls[Len(o.calls)].args[2].has_value

\* C22 witness: ParseSingleSystraceEvent was called on a cpu_idle line with
\* a tgid and the pid 12 whose state argument is missing.
C22_Witness ==
  /\ Len(events) = 1
  /\ events[1].buffer
       = EventLine(<<"s", "h">>, <<"1", "2">>, <<"7">>, CpuIdleNoState)

\* The text of buffer from behind position from up to position to, trimmed.
TextBetween(buffer, from, to) == Trim(SubSeq(buffer, from + 2, to))

\* C23 as stated (pid extraction): the text handed to the pid conversion is
\* the text between the '-' that ends the task name and the '(' of the tgid
\* when a tgid stands before the '[' of the cpu, and the text between that
\* '-' and the '[' when there is none; a line with the pid 0, with or
\* without tgid, gets past the pid conversion with the pid 0.
C23_PidTextAsStated ==
  \A i \in 1 .. Len(events) :
    LET buffer == events[i].buffer
        head == PidStr(buffer)
    IN /\ head.has_tgid
            => head.pid_str.str
                 = TextBetween(buffer, head.task_idx, head.tgid_idx)
       /\ ~head.has_tgid
            => head.pid_str.str
                 = TextBetween(buffer, head.task_idx, head.cpu_idx)
       /\ buffer \in {EventLine(task, <<"0">>, tgid, tail) :
                        task \in EventTasks, tgid \in EventTgids,
                        tail \in EventTails}
            => /\ events[i].message # "Could not convert pid "
               /\ events[i].calls # <<>>
               /\ events[i].calls[1] = TrackerCall("GetOrCreateThread", <<0>>)

\* C23, what the code does: the text handed to the pid conversion runs from
\* behind the '-' to the '[' of the cpu when a tgid stands before the '[',
\* and to the first '(' of the line (behind the cpu) or to the end of the
\* line when there is none; it holds the '[' in both cases, so every call on
\* an event line returns 'Could not convert pid' with that text and makes no
\* tracker call.
C23_PidText ==
  \A i \in 1 .. Len(events) :
    LET buffer == events[i].buffer
        head == PidStr(buffer)
    IN /\ head.has_tgid
            => head.pid_str.str
                 = TextBetween(buffer, head.task_idx, head.cpu_idx)
       /\ (~head.has_tgid /\ head.tgid_idx # npos)
            => head.pid_str.str
                 = TextBetween(buffer, head.task_idx, head.tgid_idx)
       /\ (~head.has_tgid /\ head.tgid_idx = npos)
            => head.pid_str.str
                 = TextBetween(buffer, head.task_idx, Len(buffer))
       /\ \E k \in 1 .. Len(head.pid_str.str) :
            head.pid_str.str[k] \in {"(", "["}
       /\ events[i].message = "Could not convert pid "
       /\ events[i].detail = head.pid_str.str
       /\ events[i].calls = <<>>

\* C23 witness: ParseSingleSystraceEvent was called on the line of the idle
\* task with the pid 0 and the tgid of dashes.
C23_Witness ==
  /\ Len(events) = 1
  /\ events[1].buffer
       = EventLine(<<"<", "i", "d", "l", "e", ">">>, <<"0">>,
                   <<"-", "-", "-", "-", "-">>, CpuIdleComplete)
  /\ events[1].message = "Could not convert pid "

----------------------------------------------------------------------------
(* The density test of FilterColumn, checked under Spec.                   *)

\* The row map holds every row from its first to its last.
Contiguous(R) == R # <<>> /\ R[Len(R)] - R[1] = Len(R) - 1

\* C24 (density test): FilterColumn runs the indexed algorithm only on a row
\* map with 2 * size < last - first; a row map of one row (range_size = 0,
\* the quotient is by zero) and every row map of contiguous rows is filtered
\* by the bounded algorithm, without a fault, making the calls of the
\* bounded algorithm only and leaving a part of the row map given.
C24_DenseIsBounded ==
  (last.called = "FilterColumn" /\ last.rm_in # <<>>)
    => LET size == Len(last.rm_in)
           range_size == last.rm_in[size] - last.rm_in[1]
       IN /\ last.algorithm = "indexed" => 2 * size < range_size
          /\ (size = 1 \/ Contiguous(last.rm_in))
               => /\ last.algorithm = "bounded"
                  /\ last.fault = "none"
                  /\ "LinearSearch" \in CallsOf(last.log)
                  /\ CallsOf(last.log) \cap IndexedCalls = {}
                  /\ \A k \in 1 .. Len(rm) :
                       \E i \in 1 .. size : rm[k] = last.rm_in[i]

\* C24 witness: FilterColumn was called on a row map of one row, which is
\* not row 0, and the bounded algorithm kept the row.
C24_Witness ==
  /\ last.called = "FilterColumn"
  /\ Len(last.rm_in) = 1
  /\ last.rm_in[1] > 0
  /\ last.algorithm = "bounded"
  /\ rm = last.rm_in

----------------------------------------------------------------------------
(* Conservation in the overlay loop of IndexedColumnFilter, checked under  *)
(* SpecSteps.                                                              *)

\* The frame of IndexedColumnFilter stands before an overlay iteration or
\* behind the last one (before the storage step).
InOverlayLoop ==
  /\ last.called = "IndexedColumnFilter"
  /\ last.pc \in {"forward", "search"}

\* C25 (conservation): before the first overlay and after every overlay
\* iteration of IndexedColumnFilter, on the fast and on the slow path,
\* len(to_filter.current) + len(valid) + count_removed is the size of the
\* row map given; current and global have the same length, and the rows of
\* global and valid together are distinct rows of that row map, so no row
\* is lost or held twice.
C25_Conservation ==
  InOverlayLoop
    => LET st == last.st
           held == st.to_filter.global \o st.valid
       IN /\ st.fault = "none"
          /\ Len(st.to_filter.current) + Len(st.valid) + st.count_removed
               = Len(last.rm_in)
          /\ Len(st.to_filter.global) = Len(st.to_filter.current)
          /\ \A i \in 1 .. Len(held) :
               /\ \E j \in 1 .. Len(last.rm_in) : last.rm_in[j] = held[i]
               /\ \A j \in 1 .. Len(held) : held[j] = held[i] => j = i

\* C25 witness: behind the second overlay of a comparison on three rows,
\* each of the two iterations took the slow path and removed a null row,
\* and one row is left for the storage.
C25_Witness ==
  /\ InOverlayLoop
  /\ last.pc = "search"
  /\ last.k = 2
  /\ Len(last.rm_in) = 3
  /\ last.st.count_removed = 2
  /\ last.st.valid = <<>>
  /\ Len(last.st.to_filter.current) = 1
  /\ \E i \in 1 .. Len(last.trace) :
       /\ last.trace[i].ov = 1
       /\ CountSetBits(last.trace[i].out) = 1
       /\ Len(last.trace[i].out) = 2

----------------------------------------------------------------------------
(* Bounds of the reads of KeepAtSet, checked under SpecKeepAtSet.          *)

\* KeepAtSet was called and its PERFETTO_CHECK passed.
KeepAtSetChecked == last.called = "KeepAtSet" /\ last.res.fault # "check"

\* Every position read lies below the size of filter_nulls.
ReadsInBounds ==
  \A i \in 1 .. Len(last.reads) : last.reads[i] < Len(last.filter_nulls)

\* C26 as stated: in every call of KeepAtSet whose check passes, every
\* position read from the bit vector lies below its size; a bit vector
\* with no set bit and another length than the helper removes all pairs
\* and returns the helper's length.
C26_BoundsAsStated ==
  KeepAtSetChecked
    => /\ ReadsInBounds
       /\ (CountSetBits(last.filter_nulls) = 0
            /\ Len(last.filter_nulls) # Len(last.helper.current))
            => /\ last.res.fault = "none"
               /\ last.res.helper = EmptyHelper
               /\ last.res.count_removed = Len(last.helper.current)

\* C26, what the code does: when the check passes, the positions read are
\* 0 .. current_.size() - 1, so they lie below the size of the bit vector
\* exactly when it is not shorter than the helper; a longer bit vector
\* with no set bit removes all pairs and returns the helper's length,
\* while a shorter one (the check admits it, having no set bit) is read
\* past its end at every position from its size on.
C26_BoundsOfReads ==
  KeepAtSetChecked
    => LET size == Len(last.filter_nulls)
           pairs == Len(last.helper.current)
       IN /\ ReadsInBounds <=> size >= pairs
          /\ size >= pairs <=> last.res.fault = "none"
          /\ (CountSetBits(last.filter_nulls) = 0 /\ size > pairs)
               => /\ last.res.helper = EmptyHelper
                  /\ last.res.count_removed = pairs
          /\ size < pairs
               => /\ CountSetBits(last.filter_nulls) = 0
                  /\ last.res.fault = "oob"
                  /\ \A pos \in size .. pairs - 1 :
                       \E i \in 1 .. Len(last.reads) : last.reads[i] = pos

\* C26 witness: KeepAtSet was called with an empty bit vector on a helper
\* of two pairs; the check passed and the call kept a pair.
C26_Witness ==
  /\ KeepAtSetChecked
  /\ last.filter_nulls = <<>>
  /\ Len(last.helper.current) = 2
  /\ Len(last.res.helper.current) = 1

----------------------------------------------------------------------------
(* Properties of SystraceTraceParser::Parse, checked under SpecParse.      *)

\* The positions of the newlines of the bytes s.
Newlines(s) == SelectSeq([i \in 1 .. Len(s) |-> i], LAMBDA i : s[i] = "\n")

\* The lines of s that are ended by a newline, in order.
CompleteLines(s) ==
  LET nl == Newlines(s)
  IN [k \in 1 .. Len(nl) |->
        SubSeq(s, IF k = 1 THEN 1 ELSE nl[k - 1] + 1, nl[k] - 1)]

\* The bytes of s behind its last newline.
UnterminatedTail(s) ==
  LET nl == Newlines(s)
  IN IF nl = <<>> THEN s ELSE SubSeq(s, nl[Len(nl)] + 1, Len(s))

\* The number of the first of lines from line from on that contains tag
\* (0 when there is none).
FirstLineWith(lines, from, tag) ==
  LET hits == {k \in from .. Len(lines) : Contains(lines[k], tag)}
  IN IF hits = {} THEN 0 ELSE CHOOSE k \in hits : \A h \in hits : k <= h

\* The number of the line with the trace-data script tag in a file that
\* starts with '<' (0 in a file that does not: the trace starts at once; -1
\* when the tag has not come yet).
TagLine(s) ==
  IF s[1] # "<" THEN 0
  ELSE IF FirstLineWith(CompleteLines(s), 1, kSystraceStart) = 0 THEN -1
  ELSE FirstLineWith(CompleteLines(s), 1, kSystraceStart)

\* The number of the line that closes the script (0 when none has come).
EndLine(s) ==
  IF TagLine(s) = -1 THEN 0
  ELSE FirstLineWith(CompleteLines(s), TagLine(s) + 1, kScriptEnd)

\* The state the bytes s lead to.
StateAfter(s) ==
  IF TagLine(s) = -1 THEN "kHtmlBeforeSystrace"
  ELSE IF EndLine(s) = 0 THEN "kSystrace"
  ELSE "kEndOfSystrace"

\* The event lines of s: the lines between the tag and the end of the
\* script that do not start with '#'.
EventLinesOf(s) ==
  LET lines == CompleteLines(s)
      upto == IF EndLine(s) = 0 THEN Len(lines) ELSE EndLine(s) - 1
  IN IF TagLine(s) = -1 THEN <<>>
     ELSE SelectSeq(SubSeq(lines, TagLine(s) + 1, upto),
                    LAMBDA l : ~StartsWith(l, <<"#">>))

\* The lines ParseSingleSystraceEvent was called on, in order.
LinesParsed(made) == [i \in 1 .. Len(made) |-> made[i].buffer]

StateRank(state) ==
  CASE state = "kBeforeParse" -> 0
    [] state = "kHtmlBeforeSystrace" -> 1
    [] state = "kSystrace" -> 2
    [] state = "kEndOfSystrace" -> 3

\* C27 (forward only): after any sequence of Parse calls the state is the
\* one the bytes given lead to (kHtmlBeforeSystrace while a file that
\* starts with '<' has not shown the trace-data script tag, kSystrace from
\* then on or at once, kEndOfSystrace from the line with </script> on) and
\* the lines given to ParseSingleSystraceEvent are the lines read in
\* kSystrace that do not start with '#'; no Parse call moves the state
\* back, and a call in kEndOfSystrace returns OK, parses nothing and leaves
\* the state and an empty partial buffer.
C27_ForwardOnly ==
  /\ [](ret # "none"
          => /\ state_ = StateAfter(fed)
             /\ LinesParsed(events) = EventLinesOf(fed)
             /\ state_ = "kEndOfSystrace" => partial_buf_ = <<>>)
  /\ [][/\ StateRank(state_') >= StateRank(state_)
         /\ state_' # "kBeforeParse"
         /\ state_ = "kEndOfSystrace"
              => /\ state_' = "kEndOfSystrace"
                 /\ ret' = "OK"
                 /\ events' = events
                 /\ partial_buf_' = <<>>]_vars

\* C27 witness: the trace started at once, one event line was parsed, the
\* next line closed the script, and a later Parse call was made on bytes
\* behind that line.
C27_Witness ==
  /\ state_ = "kEndOfSystrace"
  /\ TagLine(fed) = 0
  /\ EndLine(fed) = 2
  /\ Len(events) = 1
  /\ input # <<>>
  /\ Len(fed) > Newlines(fed)[2] + MaxChunk
  /\ partial_buf_ = <<>>
  /\ ret = "OK"

\* C28 (chunking independence): after every Parse call the lines given to
\* ParseSingleSystraceEvent, the state and the partial buffer are those of
\* one Parse call on all the bytes given so far, whatever the chunks were;
\* before kEndOfSystrace the partial buffer holds the bytes behind the last
\* newline, so each complete line was read once and whole.
C28_ChunkingIndependence ==
  ret # "none"
    => /\ \E whole \in Parse("kBeforeParse", <<>>, fed) :
            /\ LinesParsed(whole.events) = LinesParsed(events)
            /\ whole.events = events
            /\ whole.state_ = state_
            /\ whole.partial_buf_ = partial_buf_
       /\ state_ # "kEndOfSystrace"
            => partial_buf_ = UnterminatedTail(fed)

\* C28 witness: two event lines were parsed from chunks of at most
\* MaxChunk bytes, each line being longer than that, and the first two
\* bytes of a third line wait in the partial buffer.
C28_Witness ==
  /\ Len(events) = 2
  /\ Len(events[1].buffer) > MaxChunk
  /\ partial_buf_ = <<"s", "h">>
  /\ input # <<>>
  /\ state_ = "kSystrace"

====
